---------------------------- MODULE Spec2Model ----------------------------
(***************************************************************************)
(* A model of agent-mux (claude-mux): the Bubble Tea update loop of the   *)
(* dashboard (internal/tui/model.go), the flattened tree and its cursor   *)
(* lookups (internal/tui/tree.go), the status classifier and the          *)
(* collection cycle (internal/agent/tmux.go) and the detector registry    *)
(* (internal/provider).                                                    *)
(*                                                                         *)
(* Go strings are sequences: a path is a sequence of byte values (so that *)
(* Go's < on strings is the lexicographic order computed by StrLess), any *)
(* other string is a sequence of atoms, an atom being a piece of text     *)
(* that no pattern of the program straddles ("/" and " " are atoms of     *)
(* their own).  Go indices are kept 0-based: the cursor and the indices   *)
(* stored in a TreeItem are the Go values, and row i of a Go slice s is   *)
(* s[i + 1] here.                                                          *)
(***************************************************************************)
EXTENDS Integers, Sequences, FiniteSets, TLC

VARIABLES
    \* ---- tui.Model (internal/tui/model.go) ----
    workspaces,     \* m.workspaces
    items,          \* m.items
    cursor,         \* m.cursor
    previewFor,     \* m.previewFor
    err,            \* m.err (Nil when no error)
    loaded,         \* m.loaded
    statusLoaded,   \* m.statusLoaded
    pendingD,       \* m.pendingD
    \* ---- the Bubble Tea runtime: commands and timers in flight ----
    loadsInFlight,  \* loadPanes commands running
    panesTicks,     \* panesTickCmd timers pending
    previewLoads,   \* loadPreview commands running, per target
    previewTicks,   \* previewTickCmd timers pending
    killsInFlight,  \* KillPane commands running
    quit,           \* tea.Quit was returned
    panesPhase,     \* the panes cadence: "loading", or once a result came
                    \* "loaded" (the cycle succeeded) or "failed"
    keyRun,         \* history: "d" or "g" when the last key press was that key
                    \* and is not the second of a pair, "" otherwise
    switchErr,      \* history: what SwitchToPane returned (Nil before it ran)
    lastKill,       \* history: the target of the KillPane command the last
                    \* Update returned (NoCmd when it returned none)
    \* ---- a function of the program called on its own ----
    call,           \* the function and its arguments (NoCall when none is)
    ret,            \* its result (Pending until it returns)
    \* ---- one collection cycle: ListPanes or ListPanesBasic ----
    host,           \* what tmux, ps and the history read answer in this cycle
    lpMode,         \* "full" (ListPanes) or "basic" (ListPanesBasic)
    lpPc,           \* where the cycle is: "fanout", "classify", "done"
    wg,             \* the goroutines the WaitGroup still waits for
    tmuxOut,        \* the slot of the pane snapshot: its rows
    tmuxErr,        \* ... and its error
    history,        \* the slot of the activity history
    lpPt,           \* the slot of the process snapshot
    raw,            \* the rows resolveAgentPanes kept
    lpPanes,        \* the panes built so far
    lpErr,          \* the error returned
    \* ---- the activity history ----
    historyCache,   \* historyCache: [modTime, data], data a map of the heap or 0 (nil)
    heap,           \* the maps made so far, by reference 1, 2, ...
    hFile,          \* ~/.claude/history.jsonl: [exists, mtime, ver]
    hLock,          \* the caller holding historyCache's mutex, or 0
    hp,             \* each caller of LastActiveByProject: its position and locals
    hBudget,        \* the calls started and the changes of the file so far
    hGhost          \* history of the run, for the claims: fresh (the cache is of
                    \* a call whose Stat came after the last change of the file),
                    \* complete (... whose Open did), dirty and stale (the callers
                    \* whose Stat, whose Open, came before it), clean (the callers
                    \* that called while complete), handedOut (the maps returned)

uiVars == <<workspaces, items, cursor, previewFor, err, loaded, statusLoaded,
            pendingD, loadsInFlight, panesTicks, previewLoads, previewTicks,
            killsInFlight, quit, panesPhase, keyRun, switchErr, lastKill>>

fnVars == <<call, ret>>

lpVars == <<host, lpMode, lpPc, wg, tmuxOut, tmuxErr, history, lpPt, raw, lpPanes, lpErr>>

hcVars == <<historyCache, heap>>

hVars == <<hFile, hLock, hp, hBudget, hGhost>>

vars == <<uiVars, fnVars, lpVars, hcVars, hVars>>

-----------------------------------------------------------------------------
(* Generic helpers on sequences.                                           *)

Nil == <<>>


\* Go's s < t on strings whose bytes are the elements of s and t.
RECURSIVE StrLess(_, _)
StrLess(s, t) ==
    IF t = <<>> THEN FALSE
    ELSE IF s = <<>> THEN TRUE
    ELSE IF Head(s) < Head(t) THEN TRUE
    ELSE IF Head(s) > Head(t) THEN FALSE
    ELSE StrLess(Tail(s), Tail(t))

\* The total of a per-target counter.
RECURSIVE SumOver(_, _)
SumOver(f, S) ==
    IF S = {} THEN 0
    ELSE LET x == CHOOSE y \in S : TRUE IN f[x] + SumOver(f, S \ {x})

-----------------------------------------------------------------------------
(* agent.PaneStatus and tui.ItemKind.                                      *)

StatusIdle == 0
StatusBusy == 1
StatusNeedsAttention == 2

KindWorkspace == 0
KindPane == 1

-----------------------------------------------------------------------------
(* GroupByWorkspace: the panes of each distinct path, in input order, the *)
(* workspaces sorted by path.                                              *)

RECURSIVE SortPaths(_)
SortPaths(S) ==
    IF S = {} THEN <<>>
    ELSE LET m == CHOOSE p \in S : \A q \in S \ {p} : StrLess(p, q)
         IN  <<m>> \o SortPaths(S \ {m})

PanesOfPath(panes, path) == SelectSeq(panes, LAMBDA p : p.Path = path)

GroupByWorkspace(panes) ==
    LET groups == {panes[i].Path : i \in DOMAIN panes}
        sorted == SortPaths(groups)
    IN  [w \in 1..Len(sorted) |->
            [Path |-> sorted[w], Panes |-> PanesOfPath(panes, sorted[w])]]

\* GroupsOf storing the pane in place of appending it: the last pane of a
\* directory is the only one kept.
GroupsOfOverwrite(panes) ==
    [path \in {panes[i].Path : i \in DOMAIN panes} |->
        LET ps == PanesOfPath(panes, path) IN <<ps[Len(ps)]>>]

\* groups[p.Path] = append(groups[p.Path], p), for every pane in turn.
GroupsOf(panes) ==
    [path \in {panes[i].Path : i \in DOMAIN panes} |-> PanesOfPath(panes, path)]

\* The loop over the map groups, visiting its keys in the given order.
WorkspacesInOrder(groups, order) ==
    [k \in 1..Len(order) |-> [Path |-> order[k], Panes |-> groups[order[k]]]]

RECURSIVE InsertByPath(_, _)
InsertByPath(sorted, w) ==
    IF sorted = <<>> THEN <<w>>
    ELSE IF StrLess(w.Path, Head(sorted).Path) THEN <<w>> \o sorted
    ELSE <<Head(sorted)>> \o InsertByPath(Tail(sorted), w)

\* SortSlice leaving the workspaces in the order of the loop.
SortSliceNone(wss) == wss

\* sort.Slice(workspaces, ... workspaces[i].Path < workspaces[j].Path)
RECURSIVE SortSlice(_)
SortSlice(wss) ==
    IF wss = <<>> THEN <<>>
    ELSE InsertByPath(SortSlice(Tail(wss)), Head(wss))

\* GroupByWorkspace when the map is ranged over in the given order.
GroupByWorkspaceIn(panes, order) ==
    SortSlice(WorkspacesInOrder(GroupsOf(panes), order))

-----------------------------------------------------------------------------
(* The flattened tree (tree.go).                                           *)

RECURSIVE PaneRows(_, _, _)
PaneRows(wi, n, pi) ==
    IF pi >= n THEN <<>>
    ELSE <<[Kind |-> KindPane, WorkspaceIndex |-> wi, PaneIndex |-> pi]>>
         \o PaneRows(wi, n, pi + 1)

RECURSIVE FlattenFrom(_, _)
FlattenFrom(wss, wi) ==
    IF wi >= Len(wss) THEN <<>>
    ELSE <<[Kind |-> KindWorkspace, WorkspaceIndex |-> wi, PaneIndex |-> 0]>>
         \o PaneRows(wi, Len(wss[wi + 1].Panes), 0)
         \o FlattenFrom(wss, wi + 1)

\* FlattenTree emitting the header of a workspace after its pane rows.
RECURSIVE FlattenTreeHeaderLast(_)
FlattenTreeHeaderLast(wss) ==
    IF wss = <<>> THEN <<>>
    ELSE LET wi == Len(wss) - 1
         IN  FlattenTreeHeaderLast(SubSeq(wss, 1, wi))
             \o PaneRows(wi, Len(wss[wi + 1].Panes), 0)
             \o <<[Kind |-> KindWorkspace, WorkspaceIndex |-> wi, PaneIndex |-> 0]>>

FlattenTree(wss) == FlattenFrom(wss, 0)

\* What a call gives: the index it returns, or the panic of items[i] with
\* i outside [0, len).
Index(i) == [panic |-> FALSE, index |-> i]

Panic(i) == [panic |-> TRUE, index |-> i]

RECURSIVE NextScan(_, _, _)
NextScan(its, i, from) ==
    IF i >= Len(its) THEN Index(from)
    ELSE IF i < 0 THEN Panic(i)
    ELSE IF its[i + 1].Kind = KindPane THEN Index(i)
    ELSE NextScan(its, i + 1, from)

\* NextPane going back to the first pane row when none follows.
NextPaneWrap(its, from) ==
    IF NextScan(its, from + 1, from) = Index(from) THEN NextScan(its, 0, from)
    ELSE NextScan(its, from + 1, from)

NextPane(its, from) == NextScan(its, from + 1, from)

RECURSIVE PrevScan(_, _, _)
PrevScan(its, i, from) ==
    IF i < 0 THEN Index(from)
    ELSE IF i >= Len(its) THEN Panic(i)
    ELSE IF its[i + 1].Kind = KindPane THEN Index(i)
    ELSE PrevScan(its, i - 1, from)

PrevPane(its, from) == PrevScan(its, from - 1, from)

\* NearestPane without the test of the row it was given.
NearestPaneNoKeep(its, from) ==
    IF Len(its) = 0 THEN 0
    ELSE LET hi == IF from >= Len(its) THEN Len(its) - 1 ELSE from
             f  == IF hi < 0 THEN 0 ELSE hi
         IN  IF PrevPane(its, f).index # f THEN PrevPane(its, f).index
             ELSE IF NextPane(its, f).index # f THEN NextPane(its, f).index
             ELSE IF its[f + 1].Kind = KindPane THEN f
             ELSE 0

\* NearestPane trying the next pane row before the previous one.
NearestPaneNextFirst(its, from) ==
    IF Len(its) = 0 THEN 0
    ELSE LET hi == IF from >= Len(its) THEN Len(its) - 1 ELSE from
             f  == IF hi < 0 THEN 0 ELSE hi
         IN  IF its[f + 1].Kind = KindPane THEN f
             ELSE IF NextPane(its, f).index # f THEN NextPane(its, f).index
             ELSE IF PrevPane(its, f).index # f THEN PrevPane(its, f).index
             ELSE 0

\* NearestPane taking the row after a header for a pane row when no pane
\* row is before it.
NearestPaneOneStep(its, from) ==
    IF Len(its) = 0 THEN 0
    ELSE LET hi == IF from >= Len(its) THEN Len(its) - 1 ELSE from
             f  == IF hi < 0 THEN 0 ELSE hi
         IN  IF its[f + 1].Kind = KindPane THEN f
             ELSE IF PrevPane(its, f).index # f THEN PrevPane(its, f).index
             ELSE IF f + 1 < Len(its) THEN f + 1
             ELSE 0

NearestPane(its, from) ==
    IF Len(its) = 0 THEN 0
    ELSE LET hi == IF from >= Len(its) THEN Len(its) - 1 ELSE from
             f  == IF hi < 0 THEN 0 ELSE hi
         IN  IF its[f + 1].Kind = KindPane THEN f
             ELSE IF PrevPane(its, f).index # f THEN PrevPane(its, f).index
             ELSE IF NextPane(its, f).index # f THEN NextPane(its, f).index
             ELSE 0

RECURSIVE FirstPaneFrom(_, _)
FirstPaneFrom(its, i) ==
    IF i >= Len(its) THEN 0
    ELSE IF its[i + 1].Kind = KindPane THEN i
    ELSE FirstPaneFrom(its, i + 1)

FirstPane(its) == FirstPaneFrom(its, 0)

PaneAt(its, wss, i) ==
    wss[its[i + 1].WorkspaceIndex + 1].Panes[its[i + 1].PaneIndex + 1]

RECURSIVE FirstAttentionFrom(_, _, _)
FirstAttentionFrom(its, wss, i) ==
    IF i >= Len(its) THEN FirstPane(its)
    ELSE IF its[i + 1].Kind = KindPane
            /\ PaneAt(its, wss, i).Status = StatusNeedsAttention THEN i
    ELSE FirstAttentionFrom(its, wss, i + 1)

\* FirstAttentionPane looking at no status.
FirstAttentionPaneAnyStatus(its, wss) == FirstPane(its)

FirstAttentionPane(its, wss) == FirstAttentionFrom(its, wss, 0)

-----------------------------------------------------------------------------
(* The package strings, on sequences of atoms.                             *)

HasPrefix(s, pre) == Len(s) >= Len(pre) /\ SubSeq(s, 1, Len(pre)) = pre

HasSuffix(s, suf) ==
    Len(s) >= Len(suf) /\ SubSeq(s, Len(s) - Len(suf) + 1, Len(s)) = suf

Contains(s, sub) ==
    \E i \in 1..(Len(s) + 1) :
        i + Len(sub) - 1 <= Len(s) /\ SubSeq(s, i, i + Len(sub) - 1) = sub

\* strings.LastIndex for a one-atom separator: a 0-based index, or -1.
LastIndex(s, a) ==
    LET at == {i \in 1..Len(s) : s[i] = a}
    IN  IF at = {} THEN 0 - 1
        ELSE (CHOOSE i \in at : \A j \in at : j <= i) - 1

\* s[from:] for a 0-based from.
SliceFrom(s, from) == SubSeq(s, from + 1, Len(s))
\* s[:to] for a 0-based to.
SliceTo(s, to) == SubSeq(s, 1, to)

WhiteSpace == {" ", "\t", "\n"}

RECURSIVE TrimLeft(_, _)
TrimLeft(s, cut) ==
    IF s # <<>> /\ Head(s) \in cut THEN TrimLeft(Tail(s), cut) ELSE s

RECURSIVE TrimRight(_, _)
TrimRight(s, cut) ==
    IF s # <<>> /\ s[Len(s)] \in cut
    THEN TrimRight(SubSeq(s, 1, Len(s) - 1), cut) ELSE s

TrimSpace(s) == TrimLeft(TrimRight(s, WhiteSpace), WhiteSpace)

\* strings.Split(s, sep) for a one-atom separator: never empty.
RECURSIVE Split(_, _)
Split(s, sep) ==
    LET at == {i \in 1..Len(s) : s[i] = sep}
    IN  IF at = {} THEN <<s>>
        ELSE LET i == CHOOSE k \in at : \A j \in at : k <= j
             IN  <<SubSeq(s, 1, i - 1)>> \o Split(SubSeq(s, i + 1, Len(s)), sep)

\* strings.Join(parts, sep) for a one-atom separator.
RECURSIVE Join(_, _)
Join(parts, sep) ==
    IF parts = <<>> THEN <<>>
    ELSE IF Len(parts) = 1 THEN parts[1]
    ELSE parts[1] \o <<sep>> \o Join(Tail(parts), sep)

\* A Go map read: the value under k, or the zero value.
MapGet(m, k, zero) == IF k \in DOMAIN m THEN m[k] ELSE zero

-----------------------------------------------------------------------------
(* The detector registry (internal/provider).                              *)

\* The keys of registry after the four init() registrations.
Registry == {<<"claude">>, <<"gemini">>, <<"codex">>, <<"opencode">>}

\* A ps row is [fields, numeric, pid, ppid, comm, args]: fields is the number
\* of its whitespace-separated fields, numeric whether strconv.Atoi accepts
\* its first two (it rejects those of the header row).
PsRowOk(row) == row.fields >= 3 /\ row.numeric

RECURSIVE ParseProcessTable(_)
ParseProcessTable(rows) ==
    IF rows = <<>> THEN [Children |-> <<>>, Comm |-> <<>>, Args |-> <<>>]
    ELSE LET row == rows[Len(rows)]
             pt  == ParseProcessTable(SubSeq(rows, 1, Len(rows) - 1))
         IN  IF ~PsRowOk(row) THEN pt
             ELSE [Children |->
                       [k \in DOMAIN pt.Children \cup {row.ppid} |->
                           IF k = row.ppid
                           THEN Append(MapGet(pt.Children, k, <<>>), row.pid)
                           ELSE pt.Children[k]],
                   Comm |->
                       [k \in DOMAIN pt.Comm \cup {row.pid} |->
                           IF k = row.pid THEN row.comm ELSE pt.Comm[k]],
                   Args |->
                       IF row.fields > 3
                       THEN [k \in DOMAIN pt.Args \cup {row.pid} |->
                                IF k = row.pid THEN row.args ELSE pt.Args[k]]
                       ELSE pt.Args]

ChildrenOf(pt, pid) == MapGet(pt.Children, pid, <<>>)
CommOf(pt, pid) == MapGet(pt.Comm, pid, <<>>)
ArgsOf(pt, pid) == MapGet(pt.Args, pid, <<>>)

\* HasGrandchild stopping one level early, at the children of pid.
HasChildNamed(pt, pid, name) ==
    \E c \in 1..Len(ChildrenOf(pt, pid)) :
        LET comm == CommOf(pt, ChildrenOf(pt, pid)[c])
        IN  comm = name \/ HasSuffix(comm, <<"/">> \o name)

\* ProcessTable.HasGrandchild
HasGrandchild(pt, pid, name) ==
    \E c \in 1..Len(ChildrenOf(pt, pid)) :
        LET childPID == ChildrenOf(pt, pid)[c]
        IN  \E g \in 1..Len(ChildrenOf(pt, childPID)) :
                LET comm == CommOf(pt, ChildrenOf(pt, childPID)[g])
                IN  comm = name \/ HasSuffix(comm, <<"/">> \o name)

\* The part of a string after its last "/".
Basename(s) ==
    IF LastIndex(s, "/") >= 0 THEN SliceFrom(s, LastIndex(s, "/") + 1) ELSE s

\* Resolve, the scan of one child's argument tokens from the k-th on.
RECURSIVE ResolveArgs(_, _)
ResolveArgs(tokens, k) ==
    IF k > Len(tokens) THEN Nil
    ELSE IF Basename(tokens[k]) \in Registry THEN Basename(tokens[k])
    ELSE ResolveArgs(tokens, k + 1)

\* Resolve, the loop over the children of shellPID from the c-th on.
RECURSIVE ResolveChildren(_, _, _)
ResolveChildren(pt, children, c) ==
    IF c > Len(children) THEN Nil
    ELSE LET base == Basename(CommOf(pt, children[c]))
             arg  == ResolveArgs(Split(ArgsOf(pt, children[c]), " "), 1)
         IN  IF base \in Registry THEN base
             ELSE IF arg # Nil THEN arg
             ELSE ResolveChildren(pt, children, c + 1)

\* Resolve looking one level further down, at the children's children too.
ResolveDeep(cmd, shellPID, pt) ==
    IF cmd \in Registry THEN cmd
    ELSE LET children == ChildrenOf(pt, shellPID)
             direct   == ResolveChildren(pt, children, 1)
             below    == {ResolveChildren(pt, ChildrenOf(pt, children[c]), 1) :
                            c \in 1..Len(children)} \ {Nil}
         IN  IF direct # Nil \/ below = {} THEN direct
             ELSE CHOOSE r \in below : TRUE

\* Resolve: the registered command of a pane, or "" (Nil).
Resolve(cmd, shellPID, pt) ==
    IF cmd \in Registry THEN cmd
    ELSE ResolveChildren(pt, ChildrenOf(pt, shellPID), 1)

\* The IsBusy of Gemini, Codex and OpenCode: some line holds the marker.
LinesContain(lines, marker) ==
    \E i \in 1..Len(lines) : Contains(lines[i], marker)

\* Provider.IsBusy of the provider registered under cmd.
IsBusy(cmd, lines, shellPID, pt) ==
    IF cmd = <<"claude">> THEN HasGrandchild(pt, shellPID, <<"caffeinate">>)
    ELSE IF cmd = <<"gemini">> THEN LinesContain(lines, <<"esc to cancel">>)
    ELSE IF cmd = <<"codex">> THEN LinesContain(lines, <<"esc to interrupt">>)
    ELSE IF cmd = <<"opencode">> THEN LinesContain(lines, <<"esc interrupt">>)
    ELSE FALSE

-----------------------------------------------------------------------------
(* The status classifier (internal/agent/tmux.go).                         *)

\* The lines capturePaneLines keeps.
CaptureLines == 10

\* capturePaneLines: cap is the outcome of tmux capture-pane, its output a
\* sequence of atoms with "\n" between and after the lines.
capturePaneLines(cap) ==
    IF cap.err THEN <<>>
    ELSE LET lines == Split(TrimRight(cap.out, {"\n"}), "\n")
         IN  IF Len(lines) > CaptureLines
             THEN SubSeq(lines, Len(lines) - CaptureLines + 1, Len(lines))
             ELSE lines

\* The substrings needsAttention looks for.
AttentionPatterns ==
    << <<"Do you want to proceed", "?">>, <<"Do you want to allow">>,
       <<"Allow once">>, <<"press Enter to approve">>, <<"Enter to select">>,
       <<"Type something">>, <<"Esc to cancel">>, <<"I'll wait for your">>,
       <<"waiting for your response">>, <<"Let me know when">>,
       <<"Please let me know">>, <<"What would you like">>,
       <<"How would you like">>, <<"Should I proceed">>,
       <<"Would you like me to">>, <<"please provide">>, <<"please specify">>,
       <<"I need more information">>, <<"Could you clarify">>,
       <<"awaiting your">>, <<"ready when you are">>,
       <<"let me know if you'd like">>, <<"Feel free to ask">>,
       <<"Is there anything else">>, <<"What else can I help">>,
       <<"Want me to go ahead">>, <<"Shall I">>, <<"Do you want me to">>,
       <<"Ready to proceed">> >>

\* The atom U+276F, the glyph of the agent's input prompt.
PromptMarker == <<"U+276F">>

\* needsAttention, the pattern loop.
PatternMatch(lines) ==
    LET content == Join(lines, "\n")
    IN  \E k \in 1..Len(AttentionPatterns) : Contains(content, AttentionPatterns[k])

\* A line that ends with "?" and does not begin with the prompt marker.
IsQuestion(line) == HasSuffix(line, <<"?">>) /\ ~HasPrefix(line, PromptMarker)

\* QuestionScan stopping at the last non-blank line.
RECURSIVE QuestionScanLast(_, _)
QuestionScanLast(lines, i) ==
    IF i < 0 THEN FALSE
    ELSE LET line == TrimSpace(lines[i + 1])
         IN  IF line = <<>> THEN QuestionScanLast(lines, i - 1)
             ELSE IsQuestion(line)

\* needsAttention, the question-mark loop from line i (0-based) down.
RECURSIVE QuestionScan(_, _)
QuestionScan(lines, i) ==
    IF i < 0 THEN FALSE
    ELSE LET line == TrimSpace(lines[i + 1])
         IN  IF line = <<>> THEN QuestionScan(lines, i - 1)
             ELSE IF IsQuestion(line) THEN TRUE
             ELSE QuestionScan(lines, i - 1)

needsAttention(lines) ==
    PatternMatch(lines) \/ QuestionScan(lines, Len(lines) - 1)

\* detectStatus asking the detector before the attention rules.
detectStatusBusyFirst(shellPID, cap, cmd, pt) ==
    LET lines == capturePaneLines(cap)
    IN  IF cmd \in Registry /\ IsBusy(cmd, lines, shellPID, pt) THEN StatusBusy
        ELSE IF needsAttention(lines) THEN StatusNeedsAttention
        ELSE StatusIdle

\* detectStatus answering with a fourth value, outside PaneStatus, for a
\* pane it could not capture.
detectStatusOrNone(shellPID, cap, cmd, pt) ==
    LET lines == capturePaneLines(cap)
    IN  IF cap.err THEN StatusNeedsAttention + 1
        ELSE IF needsAttention(lines) THEN StatusNeedsAttention
        ELSE IF cmd \in Registry /\ IsBusy(cmd, lines, shellPID, pt) THEN StatusBusy
        ELSE StatusIdle

\* detectStatus, given the outcome of the capture of its target.
detectStatus(shellPID, cap, cmd, pt) ==
    LET lines == capturePaneLines(cap)
    IN  IF needsAttention(lines) THEN StatusNeedsAttention
        ELSE IF cmd \in Registry /\ IsBusy(cmd, lines, shellPID, pt) THEN StatusBusy
        ELSE StatusIdle

-----------------------------------------------------------------------------
(* Bounds of the model and the inputs the environment draws from.         *)

\* loadPanes commands plus panes timers outstanding at once.
MaxPanesCycles == 2
\* loadPreview commands plus preview timers outstanding at once.
MaxPreviewCycles == 2
\* KillPane commands outstanding at once.
MaxKills == 1

\* "main:0.0" and "main:0.1", in the order tmux lists them.
T1 == <<"main", ":", "0", ".", "0">>
T2 == <<"main", ":", "0", ".", "1">>
UITargets == <<T1, T2>>
TargetSet == {UITargets[i] : i \in DOMAIN UITargets}

\* "/a" and "/b".
PathA == <<47, 97>>
PathB == <<47, 98>>
UIPaths == {PathA, PathB}

Statuses == {StatusIdle, StatusBusy, StatusNeedsAttention}
UIStatuses == {StatusIdle, StatusNeedsAttention}

ErrListPanes == <<"tmux list-panes">>
ErrKill == <<"list-panes">>
ErrSwitch == <<"switch-client">>

\* Where each target can be: "main:0.0" in "/a" or "/b", "main:0.1" in "/a".
UIPathsOf == <<UIPaths, {PathA}>>

\* Every pane list over the targets from the k-th on, in discovery order.
RECURSIVE PaneListsFrom(_, _)
PaneListsFrom(k, statuses) ==
    IF k > Len(UITargets) THEN {<<>>}
    ELSE LET rest == PaneListsFrom(k + 1, statuses)
         IN  rest \cup
             {<<[Target |-> UITargets[k], Path |-> p, Status |-> s]>> \o r :
                 p \in UIPathsOf[k], s \in statuses, r \in rest}

\* What ListClaudePanes and ListClaudePanesBasic can return.
LoadResults ==
    {[panes |-> ps, err |-> Nil] : ps \in PaneListsFrom(1, UIStatuses)}
    \cup {[panes |-> <<>>, err |-> ErrListPanes]}

BasicResults ==
    {[panes |-> ps, err |-> Nil] : ps \in PaneListsFrom(1, {StatusIdle})}
    \cup {[panes |-> <<>>, err |-> ErrListPanes]}

Keys == {"d", "j", "k", "q", "enter", "g", "G"}

NoTargets == [t \in TargetSet |-> 0]

PanesCycles == loadsInFlight + panesTicks
PreviewCycles == SumOver(previewLoads, TargetSet) + previewTicks

-----------------------------------------------------------------------------
(* tui.Model: the commands a handler returns.                              *)

NoCmd == Nil

CursorOnPane(its, c) ==
    c >= 0 /\ c < Len(its) /\ its[c + 1].Kind = KindPane

\* m.previewCmd(): the target loadPreview is started for, or NoCmd.
previewCmd(its, wss, c, pf) ==
    IF ~CursorOnPane(its, c) THEN NoCmd
    ELSE IF PaneAt(its, wss, c).Target = pf THEN NoCmd
    ELSE PaneAt(its, wss, c).Target

\* m.killCurrentPane(): the target KillPane is started for, or NoCmd.
killCurrentPane(its, wss, c) ==
    IF ~CursorOnPane(its, c) THEN NoCmd
    ELSE PaneAt(its, wss, c).Target

\* A command joins the commands in flight.
Started(inFlight, cmd) ==
    IF cmd = NoCmd THEN inFlight
    ELSE [inFlight EXCEPT ![cmd] = @ + 1]

StartedCount(cmd) == IF cmd = NoCmd THEN 0 ELSE 1

-----------------------------------------------------------------------------
(* NewModel followed by Model.Init.                                        *)

NewModel(r) ==
    /\ loaded = TRUE
    /\ statusLoaded = FALSE
    /\ pendingD = FALSE
    /\ previewFor = Nil
    /\ IF r.err # Nil
       THEN /\ err = r.err
            /\ workspaces = <<>>
            /\ items = <<>>
            /\ cursor = 0
       ELSE /\ err = Nil
            /\ workspaces = GroupByWorkspace(r.panes)
            /\ items = FlattenTree(workspaces)
            /\ cursor = FirstPane(items)

ModelInit ==
    /\ loadsInFlight = 1
    /\ panesTicks = 0
    /\ previewLoads = Started(NoTargets, previewCmd(items, workspaces, cursor, previewFor))
    /\ previewTicks = 0
    /\ killsInFlight = 0
    /\ quit = FALSE
    /\ keyRun = ""
    /\ switchErr = Nil
    /\ lastKill = NoCmd
    /\ panesPhase = "loading"

UIInit == \E r \in BasicResults : NewModel(r) /\ ModelInit

-----------------------------------------------------------------------------
(* Model.Update, one action per message type.                              *)

\* LoadedCursor without the re-anchoring of later cycles.
LoadedCursorStale(firstStatus, its, wss, c) ==
    IF firstStatus THEN FirstAttentionPane(its, wss) ELSE c

\* LoadedCursor without the attention jump of the first cycle.
LoadedCursorNoJump(firstStatus, its, wss, c) == NearestPane(its, c)

\* The cursor after a successful panesLoadedMsg.
LoadedCursor(firstStatus, its, wss, c) ==
    IF firstStatus THEN FirstAttentionPane(its, wss) ELSE NearestPane(its, c)

\* PanesLoadedErr returning no command: the error branch ends the cadence.
PanesLoadedErrNoTick(msg) ==
    /\ loaded' = TRUE
    /\ err' = msg.err
    /\ loadsInFlight' = loadsInFlight - 1
    /\ lastKill' = NoCmd
    /\ UNCHANGED <<workspaces, items, cursor, previewFor, statusLoaded, pendingD, keyRun, switchErr,
                   panesTicks, previewLoads, previewTicks, killsInFlight, quit>>

\* PanesLoadedErr emptying the list: the failed cycle's panes are shown.
PanesLoadedErrEmpties(msg) ==
    /\ loaded' = TRUE
    /\ err' = msg.err
    /\ workspaces' = GroupByWorkspace(msg.panes)
    /\ items' = FlattenTree(workspaces')
    /\ cursor' = NearestPane(items', cursor)
    /\ loadsInFlight' = loadsInFlight - 1
    /\ panesTicks' = panesTicks + 1
    /\ lastKill' = NoCmd
    /\ UNCHANGED <<previewFor, statusLoaded, pendingD, keyRun, switchErr,
                   previewLoads, previewTicks, killsInFlight, quit>>

\* case panesLoadedMsg, msg.err != nil
PanesLoadedErr(msg) ==
    /\ loaded' = TRUE
    /\ err' = msg.err
    /\ loadsInFlight' = loadsInFlight - 1
    /\ panesTicks' = panesTicks + 1
    /\ lastKill' = NoCmd
    /\ UNCHANGED <<workspaces, items, cursor, previewFor, statusLoaded, pendingD, keyRun, switchErr,
                   previewLoads, previewTicks, killsInFlight, quit>>

\* PanesLoadedOk rebuilding the items and keeping the old workspaces.
PanesLoadedOkStaleWorkspaces(msg) ==
    LET wss == GroupByWorkspace(msg.panes)
        its == FlattenTree(wss)
        c   == LoadedCursor(~statusLoaded, its, wss, cursor)
        cmd == previewCmd(its, wss, c, previewFor)
    IN  /\ PreviewCycles + StartedCount(cmd) <= MaxPreviewCycles
        /\ loaded' = TRUE
        /\ err' = Nil
        /\ statusLoaded' = TRUE
        /\ items' = its
        /\ cursor' = c
        /\ loadsInFlight' = loadsInFlight - 1
        /\ panesTicks' = panesTicks + 1
        /\ previewLoads' = Started(previewLoads, cmd)
        /\ lastKill' = NoCmd
        /\ UNCHANGED <<workspaces, previewFor, pendingD, keyRun, switchErr, previewTicks,
                       killsInFlight, quit>>

\* case panesLoadedMsg, msg.err == nil
PanesLoadedOk(msg) ==
    LET wss == GroupByWorkspace(msg.panes)
        its == FlattenTree(wss)
        c   == LoadedCursor(~statusLoaded, its, wss, cursor)
        cmd == previewCmd(its, wss, c, previewFor)
    IN  /\ PreviewCycles + StartedCount(cmd) <= MaxPreviewCycles
        /\ loaded' = TRUE
        /\ err' = Nil
        /\ statusLoaded' = TRUE
        /\ workspaces' = wss
        /\ items' = its
        /\ cursor' = c
        /\ loadsInFlight' = loadsInFlight - 1
        /\ panesTicks' = panesTicks + 1
        /\ previewLoads' = Started(previewLoads, cmd)
        /\ lastKill' = NoCmd
        /\ UNCHANGED <<previewFor, pendingD, keyRun, switchErr, previewTicks, killsInFlight, quit>>

PanesLoaded ==
    /\ ~quit
    /\ loadsInFlight > 0
    /\ \E msg \in LoadResults :
          IF msg.err # Nil
          THEN PanesLoadedErr(msg) /\ panesPhase' = "failed"
          ELSE PanesLoadedOk(msg) /\ panesPhase' = "loaded"

\* PreviewLoaded returning no command: the preview cadence ends with the
\* capture.
PreviewLoadedNoTick ==
    /\ ~quit
    /\ \E t \in TargetSet :
          /\ previewLoads[t] > 0
          /\ previewFor' = t
          /\ previewLoads' = [previewLoads EXCEPT ![t] = @ - 1]
    /\ lastKill' = NoCmd
    /\ UNCHANGED <<panesPhase, workspaces, items, cursor, err, loaded, statusLoaded, pendingD,
                   keyRun, switchErr, loadsInFlight, panesTicks, previewTicks, killsInFlight,
                   quit>>

\* case previewLoadedMsg
PreviewLoaded ==
    /\ ~quit
    /\ \E t \in TargetSet :
          /\ previewLoads[t] > 0
          /\ previewFor' = t
          /\ previewLoads' = [previewLoads EXCEPT ![t] = @ - 1]
    /\ previewTicks' = previewTicks + 1
    /\ lastKill' = NoCmd
    /\ UNCHANGED <<panesPhase, workspaces, items, cursor, err, loaded, statusLoaded, pendingD, keyRun, switchErr,
                   loadsInFlight, panesTicks, killsInFlight, quit>>

\* case previewTickMsg
PreviewTick ==
    /\ ~quit
    /\ previewTicks > 0
    /\ previewFor' = Nil
    /\ LET cmd == previewCmd(items, workspaces, cursor, Nil)
       IN  IF cmd # NoCmd
           THEN /\ previewLoads' = Started(previewLoads, cmd)
                /\ previewTicks' = previewTicks - 1
           ELSE /\ previewLoads' = previewLoads
                /\ previewTicks' = previewTicks - 1 + 1
    /\ lastKill' = NoCmd
    /\ UNCHANGED <<panesPhase, workspaces, items, cursor, err, loaded, statusLoaded, pendingD, keyRun, switchErr,
                   loadsInFlight, panesTicks, killsInFlight, quit>>

\* case panesTickMsg
PanesTick ==
    /\ ~quit
    /\ panesTicks > 0
    /\ panesTicks' = panesTicks - 1
    /\ loadsInFlight' = loadsInFlight + 1
    /\ panesPhase' = "loading"
    /\ lastKill' = NoCmd
    /\ UNCHANGED <<workspaces, items, cursor, previewFor, err, loaded, statusLoaded,
                   pendingD, keyRun, switchErr, previewLoads, previewTicks, killsInFlight, quit>>

\* What the paneKilledMsg handler returns: 1 for loadPanes, 0 for nil.
KilledCmd(e) == IF e # Nil THEN 0 ELSE 1

\* case paneKilledMsg
PaneKilled ==
    /\ ~quit
    /\ killsInFlight > 0
    /\ killsInFlight' = killsInFlight - 1
    /\ lastKill' = NoCmd
    /\ \E e \in {Nil, ErrKill} :
          /\ PanesCycles + KilledCmd(e) <= MaxPanesCycles
          /\ err' = IF e # Nil THEN e ELSE err
          /\ loadsInFlight' = loadsInFlight + KilledCmd(e)
          /\ panesPhase' = IF e # Nil THEN panesPhase ELSE "loading"
    /\ UNCHANGED <<workspaces, items, cursor, previewFor, loaded, statusLoaded,
                   pendingD, keyRun, switchErr, panesTicks, previewLoads, previewTicks, quit>>

\* KeyD starting the kill at the first d.
KeyDAtOnce ==
    LET cmd == killCurrentPane(items, workspaces, cursor)
    IN  /\ killsInFlight + StartedCount(cmd) <= MaxKills
        /\ pendingD' = FALSE
        /\ killsInFlight' = killsInFlight + StartedCount(cmd)
        /\ lastKill' = cmd
        /\ UNCHANGED <<cursor, previewLoads, quit, switchErr>>

\* case tea.KeyMsg, key "d"
KeyD ==
    IF pendingD
    THEN LET cmd == killCurrentPane(items, workspaces, cursor)
         IN  /\ killsInFlight + StartedCount(cmd) <= MaxKills
             /\ pendingD' = FALSE
             /\ killsInFlight' = killsInFlight + StartedCount(cmd)
             /\ lastKill' = cmd
             /\ UNCHANGED <<cursor, previewLoads, quit, switchErr>>
    ELSE /\ pendingD' = TRUE
         /\ lastKill' = NoCmd
         /\ UNCHANGED <<cursor, previewLoads, killsInFlight, quit, switchErr>>

\* case "j", "down" (next = NextPane) and case "k", "up" (next = PrevPane)
KeyMove(next) ==
    /\ pendingD' = FALSE
    /\ IF next # cursor
       THEN LET cmd == previewCmd(items, workspaces, next, previewFor)
            IN  /\ PreviewCycles + StartedCount(cmd) <= MaxPreviewCycles
                /\ cursor' = next
                /\ previewLoads' = Started(previewLoads, cmd)
       ELSE UNCHANGED <<cursor, previewLoads>>
    /\ lastKill' = NoCmd
    /\ UNCHANGED <<killsInFlight, quit, switchErr>>

\* case "q", "esc", "ctrl+c"
KeyQuit ==
    /\ pendingD' = FALSE
    /\ quit' = TRUE
    /\ lastKill' = NoCmd
    /\ UNCHANGED <<cursor, previewLoads, killsInFlight, switchErr>>

\* case "enter"
KeyEnter ==
    /\ pendingD' = FALSE
    /\ quit' = CursorOnPane(items, cursor)
    /\ IF CursorOnPane(items, cursor)
       THEN \E e \in {Nil, ErrSwitch} : switchErr' = e
       ELSE switchErr' = switchErr
    /\ lastKill' = NoCmd
    /\ UNCHANGED <<cursor, previewLoads, killsInFlight>>

\* any other key
KeyOther ==
    /\ pendingD' = FALSE
    /\ lastKill' = NoCmd
    /\ UNCHANGED <<cursor, previewLoads, killsInFlight, quit, switchErr>>

KeyHandler(key) ==
    IF key = "d" THEN KeyD
    ELSE IF key \in {"q", "esc", "ctrl+c"} THEN KeyQuit
    ELSE IF key \in {"j", "down"} THEN KeyMove(NextPane(items, cursor).index)
    ELSE IF key \in {"k", "up"} THEN KeyMove(PrevPane(items, cursor).index)
    ELSE IF key = "enter" THEN KeyEnter
    ELSE KeyOther

\* Update on the tea.KeyMsg of one key.
KeyStep(key) ==
    /\ ~quit
    /\ KeyHandler(key)
    /\ keyRun' = IF key \in {"d", "g"} /\ keyRun # key THEN key ELSE ""
    /\ UNCHANGED <<panesPhase, workspaces, items, previewFor, err, loaded, statusLoaded,
                   loadsInFlight, panesTicks, previewTicks>>

KeyPress == \E key \in Keys : KeyStep(key)

\* The dashboard is not running.
UIOff ==
    /\ workspaces = <<>>
    /\ items = <<>>
    /\ cursor = 0
    /\ previewFor = Nil
    /\ err = Nil
    /\ loaded = FALSE
    /\ statusLoaded = FALSE
    /\ pendingD = FALSE
    /\ loadsInFlight = 0
    /\ panesTicks = 0
    /\ previewLoads = NoTargets
    /\ previewTicks = 0
    /\ killsInFlight = 0
    /\ quit = FALSE
    /\ keyRun = ""
    /\ switchErr = Nil
    /\ lastKill = NoCmd
    /\ panesPhase = "off"

-----------------------------------------------------------------------------
(* The inputs of the functions called on their own.                        *)

\* Lines of a captured screen.
MaxScreenLines == 2
\* Rows of a ps output after its header.
MaxPsRows == 2

NoCall == [fn |-> "none"]
\* ret is Pending until the function returns, then Returned(its result).
Pending == <<>>
Returned(v) == <<v>>
Result == ret[1]

LineSamples ==
    { <<>>,
      <<" ", " ">>,
      <<"text">>,
      <<"text", "?">>,
      <<" ", "text", "?", " ">>,
      <<"U+276F", " ", "text", "?">>,
      <<"text", "?", " ", "text">>,
      <<"Do you want to proceed", "?", " ", "(y/n)">>,
      <<"text", " ", "Allow once">>,
      <<"Esc to cancel">>,
      <<"esc to cancel">>,
      <<"esc to interrupt">>,
      <<"esc interrupt">> }

\* The screens of at most n lines.
RECURSIVE Screens(_)
Screens(n) ==
    IF n = 0 THEN {<<>>}
    ELSE Screens(n - 1) \cup
         {Append(sc, l) : sc \in {x \in Screens(n - 1) : Len(x) = n - 1},
                          l \in LineSamples}

\* What tmux capture-pane -p prints for a screen: every line and its "\n".
RECURSIVE ScreenOut(_)
ScreenOut(sc) ==
    IF sc = <<>> THEN <<>> ELSE Head(sc) \o <<"\n">> \o ScreenOut(Tail(sc))

Captures ==
    {[err |-> FALSE, out |-> ScreenOut(sc)] : sc \in Screens(MaxScreenLines)}
    \cup {[err |-> TRUE, out |-> <<>>]}

PsRow(pid, ppid, comm, args) ==
    [fields |-> 4, numeric |-> TRUE, pid |-> pid, ppid |-> ppid, comm |-> comm,
     args |-> args]

PsHeader ==
    [fields |-> 4, numeric |-> FALSE, pid |-> 0, ppid |-> 0, comm |-> <<"COMM">>,
     args |-> <<"ARGS">>]

NodeGemini == PsRow(101, 100, <<"node">>,
                    <<"node", " ", "/", "opt", "/", "bin", "/", "gemini">>)
ClaudeByPath == PsRow(101, 100, <<"/", "usr", "/", "bin", "/", "claude">>, <<"claude">>)
VimOnNotes == PsRow(101, 100, <<"vim">>, <<"vim", " ", "notes", "/", "gemini.md">>)
ShortRow ==
    [fields |-> 2, numeric |-> TRUE, pid |-> 101, ppid |-> 100, comm |-> <<>>,
     args |-> <<>>]
Caffeinate == PsRow(102, 101, <<"caffeinate">>, <<"caffeinate", " ", "-i">>)
CaffeinateByPath == PsRow(102, 101, <<"/", "usr", "/", "bin", "/", "caffeinate">>,
                          <<"caffeinate", " ", "-i">>)
CodexBelow == PsRow(102, 101, <<"codex">>, <<"codex">>)
OpenCodeSecond == PsRow(102, 100, <<"opencode">>, <<"opencode">>)
CaffeinateChild == PsRow(103, 100, <<"caffeinate">>, <<"caffeinate">>)
CodexElsewhere == PsRow(201, 200, <<"codex">>, <<"codex">>)

PsRowSamples ==
    {NodeGemini, ClaudeByPath, VimOnNotes, ShortRow, Caffeinate, CaffeinateByPath,
     CodexBelow, OpenCodeSecond, CaffeinateChild, CodexElsewhere}

\* The row lists of at most n rows, no pid twice.
RECURSIVE PsRowLists(_)
PsRowLists(n) ==
    IF n = 0 THEN {<<>>}
    ELSE LET shorter == PsRowLists(n - 1)
         IN  shorter \cup
             {Append(rs, r) :
                 <<rs, r>> \in {x \in shorter \X PsRowSamples :
                                  /\ Len(x[1]) = n - 1
                                  /\ \A i \in DOMAIN x[1] : x[1][i].pid # x[2].pid}}

ProcessTables ==
    {ParseProcessTable(<<PsHeader>> \o rs) : rs \in PsRowLists(MaxPsRows)}

StatusTables ==
    {ParseProcessTable(<<PsHeader>> \o rs) :
        rs \in {<<>>, <<ClaudeByPath, Caffeinate>>, <<ClaudeByPath, CaffeinateByPath>>,
                <<ClaudeByPath, CaffeinateChild>>}}

CmdSamples ==
    Registry \cup {<<"node">>, <<"zsh">>, <<"/", "usr", "/", "bin", "/", "claude">>}

ShellPids == {100, 200}

detectStatusCalls ==
    {[fn |-> "detectStatus", shellPID |-> 100, cap |-> c, cmd |-> cmd, pt |-> pt] :
        c \in Captures, cmd \in Registry \cup {<<"zsh">>}, pt \in StatusTables}

ResolveCalls ==
    {[fn |-> "Resolve", cmd |-> cmd, shellPID |-> pid, pt |-> pt] :
        cmd \in CmdSamples, pid \in ShellPids, pt \in ProcessTables}

\* Rows of an item list under check.
MaxItems == 4
\* How far outside [0, len(items)) the index from is taken.
FromSlack == 3

ItemOfKind(kind) == [Kind |-> kind, WorkspaceIndex |-> 0, PaneIndex |-> 0]

\* The item lists of up to n rows, by the kinds of their rows.
ItemLists(n) ==
    UNION {{[k \in 1..len |-> ItemOfKind(kinds[k])] :
               kinds \in [1..len -> {KindWorkspace, KindPane}]} : len \in 0..n}

\* Panes of a pane list under check.
MaxTreePanes == 3

Digits == <<"0", "1", "2", "3", "4", "5", "6", "7", "8", "9">>

\* "/a", "/b" and "/ab".
TreePaths == UIPaths \cup {<<47, 97, 98>>}

\* The pane lists of up to n panes: the k-th discovered pane is "main:0.k",
\* in any of the directories, with any of the statuses.
TreePaneLists(n, paths, statuses) ==
    UNION {{[k \in 1..len |->
                [Target |-> <<"main", ":", "0", ".", Digits[k]>>,
                 Path |-> shape[k][1], Status |-> shape[k][2]]] :
               shape \in [1..len -> paths \X statuses]} : len \in 0..n}

\* The orders in which a range loop can visit the keys of a map.
RangeOrders(keys) ==
    {order \in [1..Cardinality(keys) -> keys] :
        \A i, j \in 1..Cardinality(keys) : order[i] = order[j] => i = j}

\* Grouping and flattening never read a pane's Status: the panes given to
\* them are told apart by their targets.
TreePanes == TreePaneLists(MaxTreePanes, TreePaths, {StatusIdle})

\* The first pane asking for attention is found by Status alone: the panes
\* given to it take every status, in the directories of the dashboard.
AttentionPanes == TreePaneLists(MaxTreePanes, UIPaths, Statuses)

TreeCalls ==
    UNION {{[fn |-> "GroupByWorkspace", panes |-> ps, order |-> order, wss |-> <<>>] :
               order \in RangeOrders(DOMAIN GroupsOf(ps))} :
           ps \in TreePanes}
    \cup {[fn |-> "FlattenTree", panes |-> ps, order |-> <<>>,
           wss |-> GroupByWorkspace(ps)] : ps \in TreePanes}

NavCalls ==
    {[fn |-> fn, items |-> its, from |-> from, wss |-> <<>>] :
        fn \in {"NextPane", "PrevPane", "NearestPane"}, its \in ItemLists(MaxItems),
        from \in (0 - FromSlack)..(MaxItems + FromSlack)}
    \cup {[fn |-> "FirstPane", items |-> its, from |-> 0, wss |-> <<>>] :
              its \in ItemLists(MaxItems)}
    \cup {[fn |-> "FirstAttentionPane",
           items |-> FlattenTree(GroupByWorkspace(ps)), from |-> 0,
           wss |-> GroupByWorkspace(ps)] : ps \in AttentionPanes}

-----------------------------------------------------------------------------
(* The activity history (internal/agent/history.go).                       *)

\* A line of history.jsonl is [kind, project, timestamp]: kind "json" when
\* json.Unmarshal into historyEntry succeeds (project and timestamp the
\* fields it found, zero when missing), "bad" when it fails, "long" when
\* the line is longer than the scanner's buffer may grow.
HistoryLine(project, timestamp) ==
    [kind |-> "json", project |-> project, timestamp |-> timestamp]

\* One turn of the scan loop: the mapping after the line.
ScanRecord(result, rec) ==
    IF rec.kind # "json" THEN result
    ELSE IF rec.project = <<>> \/ rec.timestamp = 0 THEN result
    ELSE IF rec.project \notin DOMAIN result \/ rec.timestamp > result[rec.project]
    THEN [p \in DOMAIN result \cup {rec.project} |->
             IF p = rec.project THEN rec.timestamp ELSE result[p]]
    ELSE result

\* scanner.Scan() has a line to give: there is one and it fits the buffer.
ScanHasNext(log, k) == k <= Len(log) /\ log[k].kind # "long"

\* The scan loop from the k-th line on.
RECURSIVE ScanLog(_, _, _)
ScanLog(log, k, result) ==
    IF ~ScanHasNext(log, k) THEN result
    ELSE ScanLog(log, k + 1, ScanRecord(result, log[k]))

\* Calls of LastActiveByProject started in a run.
MaxHistoryCalls == 3
\* Changes of history.jsonl in a run.
MaxTouches == 2

\* The goroutines calling LastActiveByProject.
Callers == {1, 2}

NilMap == 0

\* The log after its v-th change: it grows by a line each time.
LogOfVersion(v) ==
    [k \in 1..v |-> HistoryLine(IF k % 2 = 1 THEN PathA ELSE PathB, 100 * k)]

NoCache == [modTime |-> 0, data |-> NilMap]

\* A caller outside LastActiveByProject, its last result ret.
Outside(pc, r) ==
    [pc |-> pc, info |-> 0, log |-> <<>>, pos |-> 0, result |-> NilMap, ret |-> r]

\* CacheHit with After in the place of Equal.
CacheHitWhenNewer(cache, info) == cache.data # NilMap /\ info > cache.modTime

\* The cached mapping serves a call whose Stat gave the time info.
CacheHit(cache, info) == cache.data # NilMap /\ info = cache.modTime

\* No call of LastActiveByProject, no file, nothing cached.
HOff ==
    /\ historyCache = NoCache
    /\ heap = <<>>
    /\ hFile = [exists |-> FALSE, mtime |-> 0, ver |-> 0]
    /\ hLock = 0
    /\ hp = [p \in Callers |-> Outside("idle", NilMap)]
    /\ hBudget = [calls |-> 0, touches |-> 0]
    /\ hGhost = [fresh |-> FALSE, complete |-> FALSE, handedOut |-> {},
                 dirty |-> Callers, stale |-> Callers, clean |-> {}]

\* The program starts with the file there or not.
HInit ==
    /\ historyCache = NoCache
    /\ heap = <<>>
    /\ hFile \in {[exists |-> TRUE, mtime |-> 1, ver |-> 1],
                  [exists |-> FALSE, mtime |-> 0, ver |-> 0]}
    /\ hLock = 0
    /\ hp = [p \in Callers |-> Outside("idle", NilMap)]
    /\ hBudget = [calls |-> 0, touches |-> 0]
    /\ hGhost = [fresh |-> FALSE, complete |-> FALSE, handedOut |-> {},
                 dirty |-> Callers, stale |-> Callers, clean |-> {}]

\* The call of p returns r: deferred Unlock when it holds the lock.
HReturn(p, r) ==
    /\ hp' = [hp EXCEPT ![p] = Outside("done", r)]
    /\ hLock' = IF hLock = p THEN 0 ELSE hLock

\* hGhost when p returns r.
GhostReturn(g, r) ==
    [g EXCEPT !.handedOut = IF r = NilMap THEN @ ELSE @ \cup {r}]

\* p calls LastActiveByProject: os.UserHomeDir.
HCall(p) ==
    /\ hp[p].pc \in {"idle", "done"}
    /\ hBudget.calls < MaxHistoryCalls
    /\ hBudget' = [hBudget EXCEPT !.calls = @ + 1]
    /\ \E homeOk \in BOOLEAN :
          IF homeOk
          THEN /\ hp' = [hp EXCEPT ![p] = Outside("stat", NilMap)]
               /\ hLock' = hLock
          ELSE HReturn(p, NilMap)
    /\ hGhost' = [hGhost EXCEPT !.clean =
                     IF hGhost.complete THEN @ \cup {p} ELSE @ \ {p}]
    /\ UNCHANGED <<historyCache, heap, hFile>>

\* os.Stat(path)
HStat(p) ==
    /\ hp[p].pc = "stat"
    /\ IF hFile.exists
       THEN /\ hp' = [hp EXCEPT ![p].pc = "lock", ![p].info = hFile.mtime]
            /\ hLock' = hLock
            /\ hGhost' = [hGhost EXCEPT !.dirty = @ \ {p}]
       ELSE /\ HReturn(p, NilMap)
            /\ hGhost' = hGhost
    /\ UNCHANGED <<historyCache, heap, hFile, hBudget>>

\* historyCache.Lock()
HLock(p) ==
    /\ hp[p].pc = "lock"
    /\ hLock = 0
    /\ hLock' = p
    /\ hp' = [hp EXCEPT ![p].pc = "check"]
    /\ UNCHANGED <<historyCache, heap, hFile, hBudget, hGhost>>

\* if historyCache.data != nil && info.ModTime().Equal(historyCache.modTime)
HCheck(p) ==
    /\ hp[p].pc = "check"
    /\ IF CacheHit(historyCache, hp[p].info)
       THEN /\ HReturn(p, historyCache.data)
            /\ hGhost' = GhostReturn(hGhost, historyCache.data)
       ELSE /\ hp' = [hp EXCEPT ![p].pc = "open"]
            /\ hLock' = hLock
            /\ hGhost' = hGhost
    /\ UNCHANGED <<historyCache, heap, hFile, hBudget>>

\* HOpen leaving with the lock held when the file cannot be opened.
HOpenNoUnlock(p) ==
    /\ hp[p].pc = "open"
    /\ IF hFile.exists
       THEN /\ heap' = Append(heap, <<>>)
            /\ hp' = [hp EXCEPT ![p].pc = "scan", ![p].log = LogOfVersion(hFile.ver),
                                ![p].pos = 1, ![p].result = Len(heap) + 1]
            /\ hGhost' = [hGhost EXCEPT !.stale = @ \ {p}]
       ELSE /\ hp' = [hp EXCEPT ![p] = Outside("done", NilMap)]
            /\ heap' = heap
            /\ hGhost' = hGhost
    /\ UNCHANGED <<hLock, historyCache, hFile, hBudget>>

\* os.Open(path); result := make(map[string]time.Time)
HOpen(p) ==
    /\ hp[p].pc = "open"
    /\ IF hFile.exists
       THEN /\ heap' = Append(heap, <<>>)
            /\ hp' = [hp EXCEPT ![p].pc = "scan", ![p].log = LogOfVersion(hFile.ver),
                                ![p].pos = 1, ![p].result = Len(heap) + 1]
            /\ hLock' = hLock
            /\ hGhost' = [hGhost EXCEPT !.stale = @ \ {p}]
       ELSE /\ HReturn(p, NilMap)
            /\ heap' = heap
            /\ hGhost' = hGhost
    /\ UNCHANGED <<historyCache, hFile, hBudget>>

\* One turn of the scan loop, or its end.
HScan(p) ==
    /\ hp[p].pc = "scan"
    /\ IF ScanHasNext(hp[p].log, hp[p].pos)
       THEN /\ heap' = [heap EXCEPT ![hp[p].result] =
                           ScanRecord(@, hp[p].log[hp[p].pos])]
            /\ hp' = [hp EXCEPT ![p].pos = @ + 1]
       ELSE /\ heap' = heap
            /\ hp' = [hp EXCEPT ![p].pc = "store"]
    /\ UNCHANGED <<historyCache, hFile, hLock, hBudget, hGhost>>

\* historyCache.modTime = info.ModTime(); historyCache.data = result; return
HStore(p) ==
    /\ hp[p].pc = "store"
    /\ historyCache' = [modTime |-> hp[p].info, data |-> hp[p].result]
    /\ HReturn(p, hp[p].result)
    /\ hGhost' = [GhostReturn(hGhost, hp[p].result) EXCEPT
                     !.fresh = p \notin hGhost.dirty,
                     !.complete = p \notin hGhost.stale]
    /\ UNCHANGED <<heap, hFile, hBudget>>

\* hGhost when the file changes.
GhostChanged(g) ==
    [g EXCEPT !.fresh = FALSE, !.complete = FALSE, !.dirty = Callers,
              !.stale = Callers, !.clean = {}]

\* The mapping behind a reference; indexing a nil map gives the zero value.
MapOf(h, ref) == IF ref = NilMap THEN <<>> ELSE h[ref]

\* LastActiveByProject skipping the check of os.Stat's error.
LastActiveByProjectNoStatCheck(home, file, cache, h) ==
    IF ~home THEN [ret |-> NilMap, cache |-> cache, heap |-> h]
    ELSE [ret |-> Len(h) + 1,
          cache |-> [modTime |-> file.mtime, data |-> Len(h) + 1],
          heap |-> Append(h, ScanLog(LogOfVersion(file.ver), 1, <<>>))]

\* One whole call of LastActiveByProject with no other call under way:
\* what it returns, and historyCache and the heap after it.
LastActiveByProject(home, file, cache, h) ==
    IF ~home THEN [ret |-> NilMap, cache |-> cache, heap |-> h]
    ELSE IF ~file.exists THEN [ret |-> NilMap, cache |-> cache, heap |-> h]
    ELSE IF CacheHit(cache, file.mtime) THEN [ret |-> cache.data, cache |-> cache, heap |-> h]
    ELSE [ret |-> Len(h) + 1,
          cache |-> [modTime |-> file.mtime, data |-> Len(h) + 1],
          heap |-> Append(h, ScanLog(LogOfVersion(file.ver), 1, <<>>))]

\* history.jsonl when the cycle starts: missing, as first written, or
\* appended to since.
HistoryFiles ==
    {[exists |-> FALSE, mtime |-> 0, ver |-> 0],
     [exists |-> TRUE, mtime |-> 1, ver |-> 1],
     [exists |-> TRUE, mtime |-> 2, ver |-> 2]}

\* historyCache and the heap when the cycle starts: nothing cached, or the
\* mapping an earlier cycle read from the file as first written.
HistoryCaches ==
    {[cache |-> NoCache, heap |-> <<>>],
     [cache |-> [modTime |-> 1, data |-> 1],
      heap |-> <<ScanLog(LogOfVersion(1), 1, <<>>)>>]}

CycleCaptures ==
    {[err |-> TRUE, out |-> <<>>],
     [err |-> FALSE, out |-> ScreenOut(<<<<"text">>, <<>>>>)],
     [err |-> FALSE, out |-> ScreenOut(<<<<"text", "?">>>>)],
     [err |-> FALSE, out |-> ScreenOut(<<<<"esc interrupt">>>>)]}

\* A collection cycle starts with no call of LastActiveByProject under way.
HCycleInit ==
    /\ hFile \in HistoryFiles
    /\ \E c \in HistoryCaches : historyCache = c.cache /\ heap = c.heap
    /\ hLock = 0
    /\ hp = [p \in Callers |-> Outside("idle", NilMap)]
    /\ hBudget = [calls |-> 0, touches |-> 0]
    /\ hGhost = [fresh |-> FALSE, complete |-> FALSE, handedOut |-> {},
                 dirty |-> Callers, stale |-> Callers, clean |-> {}]

\* Another program appends to history.jsonl, or creates it.
HTouch ==
    /\ hBudget.touches < MaxTouches
    /\ hBudget' = [hBudget EXCEPT !.touches = @ + 1]
    /\ hFile' = [exists |-> TRUE, mtime |-> hFile.mtime + 1, ver |-> hFile.ver + 1]
    /\ hGhost' = GhostChanged(hGhost)
    /\ UNCHANGED <<historyCache, heap, hLock, hp>>

\* history.jsonl is removed.
HRemove ==
    /\ hFile.exists
    /\ hBudget.touches < MaxTouches
    /\ hBudget' = [hBudget EXCEPT !.touches = @ + 1]
    /\ hFile' = [hFile EXCEPT !.exists = FALSE]
    /\ hGhost' = GhostChanged(hGhost)
    /\ UNCHANGED <<historyCache, heap, hLock, hp>>

-----------------------------------------------------------------------------
(* The collection cycle (internal/agent/tmux.go).                          *)

\* strings.Index for a one-atom separator: a 0-based index, or -1.
FirstIndex(s, a) ==
    LET at == {i \in 1..Len(s) : s[i] = a}
    IN  IF at = {} THEN 0 - 1
        ELSE (CHOOSE i \in at : \A j \in at : i <= j) - 1

\* parseTarget splitting at the first ':' and the first '.'.
parseTargetFirst(t) ==
    LET colonIdx == FirstIndex(t, ":")
        rest     == SliceFrom(t, colonIdx + 1)
        dotIdx   == FirstIndex(rest, ".")
    IN  IF colonIdx < 0 THEN [session |-> t, window |-> <<>>, pane |-> <<>>]
        ELSE IF dotIdx < 0
        THEN [session |-> SliceTo(t, colonIdx), window |-> rest, pane |-> <<>>]
        ELSE [session |-> SliceTo(t, colonIdx), window |-> SliceTo(rest, dotIdx),
              pane |-> SliceFrom(rest, dotIdx + 1)]

\* parseTarget: "foo:2.1" into session "foo", window "2", pane "1".
parseTarget(t) ==
    LET colonIdx == LastIndex(t, ":")
        rest     == SliceFrom(t, colonIdx + 1)
        dotIdx   == LastIndex(rest, ".")
    IN  IF colonIdx < 0 THEN [session |-> t, window |-> <<>>, pane |-> <<>>]
        ELSE IF dotIdx < 0
        THEN [session |-> SliceTo(t, colonIdx), window |-> rest, pane |-> <<>>]
        ELSE [session |-> SliceTo(t, colonIdx), window |-> SliceTo(rest, dotIdx),
              pane |-> SliceFrom(rest, dotIdx + 1)]

\* strconv.Atoi of the pid field, its error dropped.
PidOf(row) == IF row.numeric THEN row.pid ELSE 0

\* parseTmuxPanes: a tmux row is [fields, target, cmd, path, numeric, pid],
\* fields the number of its tab-separated fields.
RECURSIVE parseTmuxPanes(_)
parseTmuxPanes(rows) ==
    IF rows = <<>> THEN <<>>
    ELSE LET row == Head(rows)
         IN  IF row.fields < 4 THEN parseTmuxPanes(Tail(rows))
             ELSE <<[target  |-> row.target,
                     session |-> parseTarget(row.target).session,
                     window  |-> parseTarget(row.target).window,
                     pane    |-> parseTarget(row.target).pane,
                     path    |-> row.path,
                     cmd     |-> row.cmd,
                     pid     |-> PidOf(row)]>>
                  \o parseTmuxPanes(Tail(rows))

\* resolveAgentPanes keeping every row, under the command tmux reported.
resolveAgentPanesAll(rs, table) == rs

\* resolveAgentPanes: the rows running a registered agent, cmd resolved.
RECURSIVE resolveAgentPanes(_, _)
resolveAgentPanes(rs, table) ==
    IF rs = <<>> THEN <<>>
    ELSE LET cmd == Resolve(Head(rs).cmd, Head(rs).pid, table)
         IN  IF cmd = Nil THEN resolveAgentPanes(Tail(rs), table)
             ELSE <<[Head(rs) EXCEPT !.cmd = cmd]>> \o resolveAgentPanes(Tail(rs), table)

\* loadProcessTable parsing what ps printed before it failed.
loadProcessTableAnyway(ps) == ParseProcessTable(ps.rows)

\* loadProcessTable: ps is the outcome of the ps call.
loadProcessTable(ps) ==
    IF ps.err THEN [Children |-> <<>>, Comm |-> <<>>, Args |-> <<>>]
    ELSE ParseProcessTable(ps.rows)

\* The Pane built from a kept row.
PaneOf(r, status, hist) ==
    [Target |-> r.target, Session |-> r.session, Window |-> r.window,
     Pane |-> r.pane, Path |-> r.path, PID |-> r.pid, Status |-> status,
     LastActive |-> MapGet(hist, r.path, 0)]

RECURSIVE BasicPanes(_, _)
BasicPanes(rs, hist) ==
    IF rs = <<>> THEN <<>>
    ELSE <<PaneOf(Head(rs), StatusIdle, hist)>> \o BasicPanes(Tail(rs), hist)

\* Inputs: the rows tmux list-panes can print for the two panes.
TmuxRow(target, cmd, path, pid) ==
    [fields |-> 4, target |-> target, cmd |-> cmd, path |-> path,
     numeric |-> TRUE, pid |-> pid]

TmuxRowsOfT1 ==
    {TmuxRow(T1, <<"claude">>, PathA, 100), TmuxRow(T1, <<"node">>, PathA, 100),
     TmuxRow(T1, <<"zsh">>, PathB, 100)}

TmuxRowsOfT2 ==
    {TmuxRow(T2, <<"opencode">>, PathB, 200), TmuxRow(T2, <<"zsh">>, PathA, 200),
     [fields |-> 3, target |-> T2, cmd |-> <<"codex">>, path |-> PathA,
      numeric |-> FALSE, pid |-> 0]}

TmuxAnswers ==
    {[err |-> Nil, rows |-> a \o b] :
        a \in {<<>>} \cup {<<r>> : r \in TmuxRowsOfT1},
        b \in {<<>>} \cup {<<r>> : r \in TmuxRowsOfT2}}
    \cup {[err |-> <<"exit status 1">>, rows |-> <<>>]}

PsAnswers ==
    {[err |-> FALSE, rows |-> <<PsHeader>> \o rs] :
        rs \in {<<>>, <<NodeGemini>>, <<VimOnNotes, CodexBelow>>, <<CodexElsewhere>>,
                <<ClaudeByPath, Caffeinate>>}}
    \cup {[err |-> TRUE, rows |-> <<>>],
          [err |-> TRUE, rows |-> <<PsHeader, NodeGemini>>]}

\* os.UserHomeDir succeeds or fails.
HomeAnswers == BOOLEAN

Hosts ==
    {[tmux |-> t, ps |-> ps, home |-> h] :
        t \in TmuxAnswers, ps \in PsAnswers, h \in HomeAnswers}

EmptyTable == [Children |-> <<>>, Comm |-> <<>>, Args |-> <<>>]

\* ListPanes / ListPanesBasic entered: the three goroutines are started.
LPInit ==
    /\ host \in Hosts
    /\ lpMode \in {"full", "basic"}
    /\ lpPc = "fanout"
    /\ wg = {"tmux", "history", "ps"}
    /\ tmuxOut = <<>>
    /\ tmuxErr = Nil
    /\ history = NilMap
    /\ lpPt = EmptyTable
    /\ raw = <<>>
    /\ lpPanes = <<>>
    /\ lpErr = Nil

\* No collection cycle is running.
LPOff ==
    /\ host = [tmux |-> [err |-> Nil, rows |-> <<>>],
               ps |-> [err |-> FALSE, rows |-> <<>>], home |-> TRUE]
    /\ lpMode = "off"
    /\ lpPc = "off"
    /\ wg = {}
    /\ tmuxOut = <<>>
    /\ tmuxErr = Nil
    /\ history = NilMap
    /\ lpPt = EmptyTable
    /\ raw = <<>>
    /\ lpPanes = <<>>
    /\ lpErr = Nil

FnOff == call = NoCall /\ ret = Pending

\* go func() { tmuxOut, tmuxErr = listTmuxPanes() }
GoTmux ==
    /\ "tmux" \in wg
    /\ tmuxOut' = host.tmux.rows
    /\ tmuxErr' = host.tmux.err
    /\ wg' = wg \ {"tmux"}
    /\ UNCHANGED <<host, lpMode, lpPc, history, lpPt, raw, lpPanes, lpErr>>

\* go func() { history = LastActiveByProject() }
GoHistory ==
    /\ "history" \in wg
    /\ LET r == LastActiveByProject(host.home, hFile, historyCache, heap)
       IN  /\ history' = r.ret
           /\ historyCache' = r.cache
           /\ heap' = r.heap
    /\ wg' = wg \ {"history"}
    /\ UNCHANGED <<host, lpMode, lpPc, tmuxOut, tmuxErr, lpPt, raw, lpPanes, lpErr>>

\* go func() { pt = loadProcessTable() }
GoPs ==
    /\ "ps" \in wg
    /\ lpPt' = loadProcessTable(host.ps)
    /\ wg' = wg \ {"ps"}
    /\ UNCHANGED <<host, lpMode, lpPc, tmuxOut, tmuxErr, history, raw, lpPanes, lpErr>>

\* WaitDone not waiting for the history read.
WaitDoneNoHistory ==
    /\ lpPc = "fanout"
    /\ wg \subseteq {"history"}
    /\ IF tmuxErr # Nil
       THEN /\ lpErr' = <<"tmux list-panes: ">> \o tmuxErr
            /\ lpPc' = "done"
            /\ UNCHANGED <<raw, lpPanes>>
       ELSE /\ raw' = resolveAgentPanes(parseTmuxPanes(tmuxOut), lpPt)
            /\ lpErr' = Nil
            /\ IF lpMode = "basic"
               THEN lpPanes' = BasicPanes(raw', MapOf(heap, history)) /\ lpPc' = "done"
               ELSE lpPanes' = <<>> /\ lpPc' = "classify"
    /\ UNCHANGED <<host, lpMode, wg, tmuxOut, tmuxErr, history, lpPt>>

\* WaitDone taking a failed pane snapshot for an empty one.
WaitDoneNoError ==
    /\ lpPc = "fanout"
    /\ wg = {}
    /\ raw' = resolveAgentPanes(parseTmuxPanes(tmuxOut), lpPt)
    /\ lpErr' = Nil
    /\ IF lpMode = "basic"
       THEN lpPanes' = BasicPanes(raw', MapOf(heap, history)) /\ lpPc' = "done"
       ELSE lpPanes' = <<>> /\ lpPc' = "classify"
    /\ UNCHANGED <<host, lpMode, wg, tmuxOut, tmuxErr, history, lpPt>>

\* wg.Wait() returns; the error check and resolveAgentPanes. ListPanesBasic
\* builds its panes here and returns.
WaitDone ==
    /\ lpPc = "fanout"
    /\ wg = {}
    /\ IF tmuxErr # Nil
       THEN /\ lpErr' = <<"tmux list-panes: ">> \o tmuxErr
            /\ lpPc' = "done"
            /\ UNCHANGED <<raw, lpPanes>>
       ELSE /\ raw' = resolveAgentPanes(parseTmuxPanes(tmuxOut), lpPt)
            /\ lpErr' = Nil
            /\ IF lpMode = "basic"
               THEN lpPanes' = BasicPanes(raw', MapOf(heap, history)) /\ lpPc' = "done"
               ELSE lpPanes' = <<>> /\ lpPc' = "classify"
    /\ UNCHANGED <<host, lpMode, wg, tmuxOut, tmuxErr, history, lpPt>>

\* One turn of ListPanes' loop: the next pane is captured and classified.
Classify ==
    /\ lpPc = "classify"
    /\ Len(lpPanes) < Len(raw)
    /\ \E cap \in CycleCaptures :
          LET r == raw[Len(lpPanes) + 1]
          IN  lpPanes' = Append(lpPanes,
                  PaneOf(r, detectStatus(r.pid, cap, r.cmd, lpPt), MapOf(heap, history)))
    /\ UNCHANGED <<host, lpMode, lpPc, wg, tmuxOut, tmuxErr, history, lpPt, raw, lpErr>>

\* return panes, nil
LPReturn ==
    /\ lpPc = "classify"
    /\ Len(lpPanes) = Len(raw)
    /\ lpPc' = "done"
    /\ UNCHANGED <<host, lpMode, wg, tmuxOut, tmuxErr, history, lpPt, raw, lpPanes, lpErr>>

-----------------------------------------------------------------------------
(* KillPane (tmux.go).                                                     *)

\* Panes in the window of a killed pane.
MaxWindowPanes == 3

\* What tmux list-panes -t session:window prints for a window of count
\* panes, the active-th of them active: one line for each pane.
ListPanesOut(count, active) ==
    ScreenOut([k \in 1..count |->
                  <<Digits[k], ":", " ", "[80x24]">>
                  \o (IF k = active THEN <<" ", "(active)">> ELSE <<>>)])

\* KillPane closing the pane whatever the window holds.
KillPaneNoCount(target, tmux) ==
    LET t             == parseTarget(target)
        sessionWindow == t.session \o <<":">> \o t.window
        list          == <<"list-panes", sessionWindow>>
    IN  IF tmux.listErr # Nil
        THEN [cmds |-> <<list>>, err |-> <<"list-panes: ">> \o tmux.listErr]
        ELSE [cmds |-> <<list, <<"kill-pane", target>>>>, err |-> tmux.closeErr]

\* KillPane(target): the tmux commands it runs, in order, and the error it
\* returns, when tmux answers as given.
KillPane(target, tmux) ==
    LET t             == parseTarget(target)
        sessionWindow == t.session \o <<":">> \o t.window
        list          == <<"list-panes", sessionWindow>>
        out           == ListPanesOut(tmux.count, tmux.active)
        paneCount     == Len(Split(TrimSpace(out), "\n"))
    IN  IF tmux.listErr # Nil
        THEN [cmds |-> <<list>>, err |-> <<"list-panes: ">> \o tmux.listErr]
        ELSE IF paneCount <= 1
        THEN [cmds |-> <<list, <<"kill-window", sessionWindow>>>>, err |-> tmux.closeErr]
        ELSE [cmds |-> <<list, <<"kill-pane", target>>>>, err |-> tmux.closeErr]

KillTargets == {T1, T2, <<"work", ":", "1", ".", "0">>}

TmuxFailure == <<"exit status 1">>

KillCalls ==
    {[fn |-> "KillPane", target |-> t,
      tmux |-> [listErr |-> le, count |-> n, active |-> a, closeErr |-> ce]] :
        t \in KillTargets, le \in {Nil, TmuxFailure}, n \in 1..MaxWindowPanes,
        a \in 1..MaxWindowPanes, ce \in {Nil, TmuxFailure}}

-----------------------------------------------------------------------------
(* The specifications.                                                     *)

\* Lines of a history log.
MaxLogLines == 3

LogLineSamples ==
    {HistoryLine(PathA, 100), HistoryLine(PathA, 50), HistoryLine(PathB, 200),
     HistoryLine(PathB, -5), HistoryLine(<<>>, 300), HistoryLine(PathA, 0),
     [kind |-> "bad", project |-> <<>>, timestamp |-> 0],
     [kind |-> "long", project |-> <<>>, timestamp |-> 0]}

\* The logs of at most n lines.
RECURSIVE Logs(_)
Logs(n) ==
    IF n = 0 THEN {<<>>}
    ELSE Logs(n - 1) \cup
         {Append(log, l) : log \in {x \in Logs(n - 1) : Len(x) = n - 1},
                           l \in LogLineSamples}

\* The scan loop of LastActiveByProject on one log.
ScanInit ==
    /\ UIOff /\ LPOff /\ HOff
    /\ call \in {[fn |-> "scan", log |-> log] : log \in Logs(MaxLogLines)}
    /\ ret = Pending

ScanReturn ==
    /\ ret = Pending
    /\ ret' = Returned(ScanLog(call.log, 1, <<>>))
    /\ UNCHANGED <<call, uiVars, lpVars, hcVars, hVars>>

ScanSpec == ScanInit /\ [][ScanReturn]_vars

\* LastActiveByProject called from two goroutines while the file changes.
HistoryInit == UIOff /\ FnOff /\ LPOff /\ HInit

HistoryNext ==
    \/ \E p \in Callers : HCall(p) /\ UNCHANGED <<uiVars, fnVars, lpVars>>
    \/ \E p \in Callers : HStat(p) /\ UNCHANGED <<uiVars, fnVars, lpVars>>
    \/ \E p \in Callers : HLock(p) /\ UNCHANGED <<uiVars, fnVars, lpVars>>
    \/ \E p \in Callers : HCheck(p) /\ UNCHANGED <<uiVars, fnVars, lpVars>>
    \/ \E p \in Callers : HOpen(p) /\ UNCHANGED <<uiVars, fnVars, lpVars>>
    \/ \E p \in Callers : HScan(p) /\ UNCHANGED <<uiVars, fnVars, lpVars>>
    \/ \E p \in Callers : HStore(p) /\ UNCHANGED <<uiVars, fnVars, lpVars>>
    \/ HTouch /\ UNCHANGED <<uiVars, fnVars, lpVars>>
    \/ HRemove /\ UNCHANGED <<uiVars, fnVars, lpVars>>

HistorySpec == HistoryInit /\ [][HistoryNext]_vars

\* A goroutine inside LastActiveByProject keeps running, and sync.Mutex
\* hands the lock to a goroutine that keeps waiting for it.
HistoryLiveSpec ==
    /\ HistorySpec
    /\ \A p \in Callers :
          /\ WF_vars((HStat(p) \/ HCheck(p) \/ HOpen(p) \/ HScan(p) \/ HStore(p))
                        /\ UNCHANGED <<uiVars, fnVars, lpVars>>)
          /\ SF_vars(HLock(p) /\ UNCHANGED <<uiVars, fnVars, lpVars>>)

\* The dashboard: NewModel, Model.Init, then Model.Update on every message.
Init == UIInit /\ FnOff /\ LPOff /\ HOff

Next ==
    \/ PanesLoaded /\ UNCHANGED <<fnVars, lpVars, hcVars, hVars>>
    \/ PreviewLoaded /\ UNCHANGED <<fnVars, lpVars, hcVars, hVars>>
    \/ PreviewTick /\ UNCHANGED <<fnVars, lpVars, hcVars, hVars>>
    \/ PanesTick /\ UNCHANGED <<fnVars, lpVars, hcVars, hVars>>
    \/ PaneKilled /\ UNCHANGED <<fnVars, lpVars, hcVars, hVars>>
    \/ KeyPress /\ UNCHANGED <<fnVars, lpVars, hcVars, hVars>>

Spec == Init /\ [][Next]_vars

\* loadPanes: the result of the cycle becomes a panesLoadedMsg.
loadPanes ==
    /\ lpMode = "full"
    /\ lpPc = "done"
    /\ ret = Pending
    /\ ret' = Returned([panes |-> lpPanes, err |-> lpErr])
    /\ UNCHANGED <<call, uiVars, lpVars, hcVars, hVars>>

\* One collection cycle.
CollectInit == UIOff /\ FnOff /\ LPInit /\ HCycleInit

CollectNext ==
    \/ GoTmux /\ UNCHANGED <<uiVars, fnVars, hcVars, hVars>>
    \/ GoHistory /\ UNCHANGED <<uiVars, fnVars, hVars>>
    \/ GoPs /\ UNCHANGED <<uiVars, fnVars, hcVars, hVars>>
    \/ WaitDone /\ UNCHANGED <<uiVars, fnVars, hcVars, hVars>>
    \/ Classify /\ UNCHANGED <<uiVars, fnVars, hcVars, hVars>>
    \/ LPReturn /\ UNCHANGED <<uiVars, fnVars, hcVars, hVars>>
    \/ loadPanes

CollectSpec == CollectInit /\ [][CollectNext]_vars

\* detectStatus on one pane.
StatusInit == UIOff /\ LPOff /\ HOff /\ call \in detectStatusCalls /\ ret = Pending

detectStatusReturn ==
    /\ ret = Pending
    /\ ret' = Returned(detectStatus(call.shellPID, call.cap, call.cmd, call.pt))
    /\ UNCHANGED <<call, uiVars, lpVars, hcVars, hVars>>

StatusSpec == StatusInit /\ [][detectStatusReturn]_vars

\* Resolve on one pane.
ResolveInit == UIOff /\ LPOff /\ HOff /\ call \in ResolveCalls /\ ret = Pending

ResolveReturn ==
    /\ ret = Pending
    /\ ret' = Returned(Resolve(call.cmd, call.shellPID, call.pt))
    /\ UNCHANGED <<call, uiVars, lpVars, hcVars, hVars>>

ResolveSpec == ResolveInit /\ [][ResolveReturn]_vars

\* One call of a function that moves between the rows of an item list.
NavInit == UIOff /\ LPOff /\ HOff /\ call \in NavCalls /\ ret = Pending

NavReturn ==
    /\ ret = Pending
    /\ ret' = Returned(
          IF call.fn = "NextPane" THEN NextPane(call.items, call.from)
          ELSE IF call.fn = "PrevPane" THEN PrevPane(call.items, call.from)
          ELSE IF call.fn = "NearestPane" THEN Index(NearestPane(call.items, call.from))
          ELSE IF call.fn = "FirstPane" THEN Index(FirstPane(call.items))
          ELSE Index(FirstAttentionPane(call.items, call.wss)))
    /\ UNCHANGED <<call, uiVars, lpVars, hcVars, hVars>>

NavSpec == NavInit /\ [][NavReturn]_vars

\* One call of KillPane.
KillInit ==
    /\ UIOff /\ LPOff /\ HOff
    /\ call \in {c \in KillCalls : c.tmux.active <= c.tmux.count}
    /\ ret = Pending

KillReturn ==
    /\ ret = Pending
    /\ ret' = Returned(KillPane(call.target, call.tmux))
    /\ UNCHANGED <<call, uiVars, lpVars, hcVars, hVars>>

KillSpec == KillInit /\ [][KillReturn]_vars

\* Atoms of a target handed to parseTarget.
MaxTargetLen == 5

\* A session name, two numbers and the two separators.
TargetAtoms == {"main", "2", "1", ":", "."}

ParseCalls ==
    UNION {{[fn |-> "parseTarget", target |-> t] : t \in [1..len -> TargetAtoms]} :
              len \in 0..MaxTargetLen}

\* One call of parseTarget.
ParseInit ==
    /\ UIOff /\ LPOff /\ HOff
    /\ call \in ParseCalls
    /\ ret = Pending

ParseReturn ==
    /\ ret = Pending
    /\ ret' = Returned(parseTarget(call.target))
    /\ UNCHANGED <<call, uiVars, lpVars, hcVars, hVars>>

ParseSpec == ParseInit /\ [][ParseReturn]_vars

\* One call of GroupByWorkspace or FlattenTree.
TreeInit ==
    /\ UIOff /\ LPOff /\ HOff
    /\ call \in TreeCalls
    /\ ret = Pending

TreeReturn ==
    /\ ret = Pending
    /\ ret' = Returned(IF call.fn = "GroupByWorkspace"
                       THEN GroupByWorkspaceIn(call.panes, call.order)
                       ELSE FlattenTree(call.wss))
    /\ UNCHANGED <<call, uiVars, lpVars, hcVars, hVars>>

TreeSpec == TreeInit /\ [][TreeReturn]_vars

\* The runtime fires every armed timer: a pending panes tick is delivered.
LiveSpec == Spec /\ WF_vars(PanesTick /\ UNCHANGED <<fnVars, lpVars, hcVars, hVars>>)

\* The keys that move the cursor or kill a pane. Of the others, q and enter
\* end the program, and g and G take the default case of Update, which
\* clears pendingD as j and k do and changes nothing else of the model.
StayKeys == {"d", "j", "k"}

\* The dashboard while the user does not leave it: a run in which the
\* program quits is such a run up to the quit, and nothing happens after.
StayNext ==
    \/ PanesLoaded /\ UNCHANGED <<fnVars, lpVars, hcVars, hVars>>
    \/ PreviewLoaded /\ UNCHANGED <<fnVars, lpVars, hcVars, hVars>>
    \/ PreviewTick /\ UNCHANGED <<fnVars, lpVars, hcVars, hVars>>
    \/ PanesTick /\ UNCHANGED <<fnVars, lpVars, hcVars, hVars>>
    \/ PaneKilled /\ UNCHANGED <<fnVars, lpVars, hcVars, hVars>>
    \/ (\E key \in StayKeys : KeyStep(key))
          /\ UNCHANGED <<fnVars, lpVars, hcVars, hVars>>

\* Update handles a message of the preview cadence.
PreviewStep ==
    (PreviewLoaded \/ PreviewTick) /\ UNCHANGED <<fnVars, lpVars, hcVars, hVars>>

\* The runtime delivers the result of every capture and fires every armed
\* preview timer: while a capture is in flight or a preview timer is
\* pending, one of them is handled. (A capture in flight stays so until its
\* result is handled, a timer pending until it fires: the runtime
\* delivering each of them implies this.)
PreviewLiveSpec == Init /\ [][StayNext]_vars /\ WF_vars(PreviewStep)

-----------------------------------------------------------------------------
(* Steps of the update loop, recognised from the state change.             *)

\* Update handled a panesLoadedMsg (no other handler ends a loadPanes).
LoadedStep == loadsInFlight' = loadsInFlight - 1
\* ... a failed one (a successful one clears m.err).
LoadedErrStep == LoadedStep /\ err' # Nil
LoadedOkStep == LoadedStep /\ err' = Nil

PaneRowsOf(its) == {i \in 0..(Len(its) - 1) : its[i + 1].Kind = KindPane}

AttentionRowsOf(its, wss) ==
    {i \in PaneRowsOf(its) : PaneAt(its, wss, i).Status = StatusNeedsAttention}

TargetsOf(its, wss) == {PaneAt(its, wss, i).Target : i \in PaneRowsOf(its)}

-----------------------------------------------------------------------------
(* Claims about the update loop.                                           *)

\* C1: at most one classification cycle is outstanding: the loadPanes
\* commands in flight plus the pending panes timers never exceed 1.
\* (Violated: a successful paneKilledMsg starts a second loadPanes chain.)
C1_OnePanesCycle == loadsInFlight + panesTicks <= 1

\* C2: the preview cadence is Idle or AwaitingResult: at most one preview
\* capture in flight or one preview timer pending, never two in total.
\* (Violated: previewCmd from a cursor move or from panesLoadedMsg starts a
\* capture beside the one the cadence already has outstanding.)
C2_OnePreviewCycle == PreviewCycles <= 1

\* C3: a failed collection cycle stores the error and arms the next panes
\* tick, as every completed load does; and unless the program quits, every
\* load completion is followed by another loadPanes.
C3_PollingSurvivesErrors ==
    /\ [][LoadedStep => panesTicks' = panesTicks + 1]_vars
    /\ [][LoadedErrStep => err' = ErrListPanes]_vars
    /\ (panesPhase \in {"loaded", "failed"}) ~> (panesPhase = "loading" \/ quit)

\* C3 witness: a failed cycle after a successful one has stored its error
\* and armed the next tick.
C3_Witness ==
    /\ err = ErrListPanes
    /\ statusLoaded
    /\ panesPhase = "failed"
    /\ panesTicks > 0

\* C4: whenever the flattened list has a pane row the cursor is in bounds
\* and on a pane row, never on a workspace header; when the list is empty
\* the cursor is 0.
C4_CursorOnPane ==
    /\ PaneRowsOf(items) # {} => cursor \in PaneRowsOf(items)
    /\ items = <<>> => cursor = 0

\* C4 witness: after a refresh, two workspaces are shown and the cursor is
\* on the pane below the second header.
C4_Witness ==
    /\ statusLoaded
    /\ Len(workspaces) = 2
    /\ cursor = 3
    /\ items[cursor + 1].Kind = KindPane

\* C5: the first successful classification result (a failed one leaves
\* statusLoaded as it was) puts the cursor on the first pane row needing
\* attention when there is one, wherever it was; every later successful
\* result puts it on NearestPane(new items, previous cursor); statusLoaded
\* never falls back, so the jump happens once.
C5_JumpOnce ==
    /\ [][LoadedErrStep => statusLoaded' = statusLoaded]_vars
    /\ [][(LoadedOkStep /\ ~statusLoaded /\ AttentionRowsOf(items', workspaces') # {})
            => /\ cursor' \in AttentionRowsOf(items', workspaces')
               /\ \A i \in AttentionRowsOf(items', workspaces') : cursor' <= i]_vars
    /\ [][(LoadedOkStep /\ statusLoaded) => cursor' = NearestPane(items', cursor)]_vars
    /\ [][LoadedOkStep => statusLoaded']_vars
    /\ [][statusLoaded => statusLoaded']_vars

\* C5 witness: the first successful result has just been handled and the
\* cursor is on a pane needing attention that is not the first pane row.
C5_Witness ==
    /\ statusLoaded
    /\ panesPhase = "loaded"
    /\ cursor \in AttentionRowsOf(items, workspaces)
    /\ cursor # FirstPane(items)
    /\ \A i \in AttentionRowsOf(items, workspaces) : cursor <= i

\* C6: across a successful refresh after the first, if the pane under the
\* cursor (by target id) is still in the new pane set, the cursor is on
\* that same pane afterwards.
\* (Violated: the cursor is re-anchored by row index, not by target.)
C6_CursorFollowsPane ==
    [][(/\ LoadedOkStep
        /\ statusLoaded
        /\ CursorOnPane(items, cursor)
        /\ PaneAt(items, workspaces, cursor).Target \in TargetsOf(items', workspaces'))
       => /\ CursorOnPane(items', cursor')
          /\ PaneAt(items', workspaces', cursor').Target
                = PaneAt(items, workspaces, cursor).Target]_vars

\* Update handled the panesLoadedMsg of a cycle that failed, of one that
\* succeeded.
CycleFailedStep == LoadedStep /\ panesPhase' = "failed"
CycleSucceededStep == LoadedStep /\ panesPhase' = "loaded"

\* C32: a failed collection cycle changes the error field and nothing else
\* of the model: workspaces, items, cursor and statusLoaded stay as they
\* were; a successful cycle clears the error, whatever it was.
C32_FailedCycleKeepsModel ==
    /\ [][CycleFailedStep =>
            /\ err' = ErrListPanes
            /\ UNCHANGED <<workspaces, items, cursor, statusLoaded, loaded,
                           previewFor, pendingD>>]_vars
    /\ [][CycleSucceededStep => err' = Nil]_vars

\* C32 witness: a cycle failed after a successful one had filled the list:
\* two workspaces are still shown, the cursor still on its pane.
C32_Witness ==
    /\ panesPhase = "failed"
    /\ err = ErrListPanes
    /\ statusLoaded
    /\ Len(workspaces) = 2
    /\ cursor = 3

\* The item's indices are in range for the workspaces.
ItemInRange(it, wss) ==
    /\ it.WorkspaceIndex >= 0
    /\ it.WorkspaceIndex < Len(wss)
    /\ it.Kind = KindPane =>
          /\ it.PaneIndex >= 0
          /\ it.PaneIndex < Len(wss[it.WorkspaceIndex + 1].Panes)

\* C33: the items and the workspaces of the model come from the same
\* cycle: the items are the flattening of the workspaces, and every item's
\* workspace index and pane index are in range for them, so the pane the
\* enter, kill and preview handlers look up under the cursor exists.
C33_ItemsMatchWorkspaces ==
    /\ items = FlattenTree(workspaces)
    /\ \A i \in 1..Len(items) : ItemInRange(items[i], workspaces)

\* C33 witness: a refresh has replaced the list shown at start by a longer
\* one: two workspaces of one pane each, the last row a pane of the second.
C33_Witness ==
    /\ statusLoaded
    /\ Len(workspaces) = 2
    /\ Len(items) = 4
    /\ items[4] = [Kind |-> KindPane, WorkspaceIndex |-> 1, PaneIndex |-> 0]

\* The target of the pane under the cursor, Nil when the cursor is on none.
TargetUnderCursor ==
    IF CursorOnPane(items, cursor) THEN PaneAt(items, workspaces, cursor).Target ELSE Nil

\* C36: the preview converges on the selected pane: while the pane under
\* the cursor stays the same and the program runs, the preview comes to
\* hold a capture of that pane (previewFor is its target), also when a
\* capture of a pane selected before arrives after the capture of this one.
\* Neither a key press that leaves the cursor where it is nor a refresh
\* that keeps the pane under it stops this.
C36_PreviewConverges ==
    \A t \in TargetSet :
        (~quit /\ TargetUnderCursor = t)
            ~> (previewFor = t \/ TargetUnderCursor # t \/ quit)

\* C36 witness: the cursor is on the second pane and the capture that
\* arrived last is of the first: no capture is in flight, two preview
\* timers are pending.
C36_Witness ==
    /\ ~quit
    /\ TargetUnderCursor = T2
    /\ previewFor = T1
    /\ previewLoads = NoTargets
    /\ previewTicks = 2

-----------------------------------------------------------------------------
(* Claims about the status classifier.                                     *)

\* The lines detectStatus classified in the call under check.
CapturedLines == capturePaneLines(call.cap)

\* Some captured line holds one of the attention substrings.
HasAttentionSubstring(lines) ==
    \E i \in 1..Len(lines), k \in 1..Len(AttentionPatterns) :
        Contains(lines[i], AttentionPatterns[k])

\* The captured lines that are not blank, by their 1-based position.
NonBlank(lines) == {i \in 1..Len(lines) : TrimSpace(lines[i]) # <<>>}

\* Some non-blank captured line ends with "?" and has no prompt marker.
SomeLineAsks(lines) ==
    \E i \in NonBlank(lines) : IsQuestion(TrimSpace(lines[i]))

\* The last non-blank captured line ends with "?" and has no prompt marker.
LastLineAsks(lines) ==
    /\ NonBlank(lines) # {}
    /\ LET last == CHOOSE i \in NonBlank(lines) : \A j \in NonBlank(lines) : j <= i
       IN  IsQuestion(TrimSpace(lines[last]))

\* C7: a pane whose captured lines hold an attention substring is
\* NeedsAttention whatever its detector's IsBusy says; Busy is returned only
\* when no attention rule matched and IsBusy is true.
C7_AttentionBeforeBusy ==
    ret # Pending =>
        /\ HasAttentionSubstring(CapturedLines) => Result = StatusNeedsAttention
        /\ Result = StatusBusy =>
              /\ ~HasAttentionSubstring(CapturedLines)
              /\ ~SomeLineAsks(CapturedLines)
              /\ IsBusy(call.cmd, CapturedLines, call.shellPID, call.pt)

\* C7 witness: an attention substring on the screen of a pane whose
\* detector says busy; the pane is classified NeedsAttention.
C7_Witness ==
    /\ ret # Pending
    /\ HasAttentionSubstring(CapturedLines)
    /\ IsBusy(call.cmd, CapturedLines, call.shellPID, call.pt)
    /\ Result = StatusNeedsAttention

\* C8 as claimed: with no attention substring captured, the pane needs
\* attention exactly when the last non-blank line ends with "?" and has no
\* prompt marker.
\* (Violated: a question line followed by a later non-blank line still
\* yields NeedsAttention.)
C8_LastLineOnly ==
    (ret # Pending /\ ~HasAttentionSubstring(CapturedLines)) =>
        (Result = StatusNeedsAttention <=> LastLineAsks(CapturedLines))

\* C8 as amended: with no attention substring captured, the pane needs
\* attention exactly when some non-blank captured line ends with "?" and
\* does not begin with the prompt marker, whichever lines follow it.
C8_AnyLineAsks ==
    (ret # Pending /\ ~HasAttentionSubstring(CapturedLines)) =>
        (Result = StatusNeedsAttention <=> SomeLineAsks(CapturedLines))

\* C8 witness: a question line followed by a non-blank line that is no
\* question, no attention substring; the pane is classified NeedsAttention.
C8_Witness ==
    /\ ret # Pending
    /\ ~HasAttentionSubstring(CapturedLines)
    /\ SomeLineAsks(CapturedLines)
    /\ ~LastLineAsks(CapturedLines)
    /\ Result = StatusNeedsAttention

\* The pids listed under pid in the tree of the call under check.
ChildPids(pid) ==
    {ChildrenOf(call.pt, pid)[i] : i \in 1..Len(ChildrenOf(call.pt, pid))}

\* Some child of a child of the pane's pid runs caffeinate.
CaffeinateBelowChild ==
    \E c \in ChildPids(call.shellPID) : \E g \in ChildPids(c) :
        Basename(CommOf(call.pt, g)) = <<"caffeinate">>

\* No attention rule matches the captured lines.
NoAttention ==
    ~HasAttentionSubstring(CapturedLines) /\ ~SomeLineAsks(CapturedLines)

\* C11: a Claude pane with no attention match is Busy exactly when a child
\* of a child of its pid has the command basename caffeinate, whatever was
\* captured; otherwise it is Idle.
C11_ClaudeBusyByCaffeinate ==
    (ret # Pending /\ call.cmd = <<"claude">> /\ NoAttention) =>
        /\ CaffeinateBelowChild => Result = StatusBusy
        /\ ~CaffeinateBelowChild => Result = StatusIdle

\* C11 witness: a Claude pane whose capture failed and whose tree has
\* caffeinate, started by its path, two levels down; it is Busy.
C11_Witness ==
    /\ ret # Pending
    /\ call.cmd = <<"claude">>
    /\ call.cap.err
    /\ CommOf(call.pt, 102) = <<"/", "usr", "/", "bin", "/", "caffeinate">>
    /\ CaffeinateBelowChild
    /\ Result = StatusBusy

\* C12: detectStatus always returns one of Idle, Busy, NeedsAttention, for
\* every capture outcome (a failed one too) and every process tree (the
\* empty one too); it returns Idle when neither an attention rule nor the
\* detector's busy predicate matches.
C12_StatusTotal ==
    ret # Pending =>
        /\ Result \in Statuses
        /\ (NoAttention /\ ~IsBusy(call.cmd, CapturedLines, call.shellPID, call.pt))
              => Result = StatusIdle

\* C12 witness: the capture failed and the process tree is empty; the pane
\* is Idle.
C12_Witness ==
    /\ ret # Pending
    /\ call.cap.err
    /\ call.pt.Children = <<>>
    /\ call.cmd \in Registry
    /\ Result = StatusIdle

-----------------------------------------------------------------------------
(* Claims about the detector registry.                                     *)

\* The whitespace-separated tokens of an argument string.
TokensOf(s) ==
    {SubSeq(s, i, j) : <<i, j>> \in
        {x \in (1..(Len(s) + 1)) \X (0..Len(s)) :
            /\ x[2] >= x[1] - 1
            /\ \A k \in x[1]..x[2] : s[k] # " "
            /\ (x[1] = 1 \/ s[x[1] - 1] = " ")
            /\ (x[2] = Len(s) \/ s[x[2] + 1] = " ")}}

\* The direct children of the pid in the call under check.
DirectChildren ==
    {ChildrenOf(call.pt, call.shellPID)[c] :
        c \in 1..Len(ChildrenOf(call.pt, call.shellPID))}

\* r is a registered name found on child: its command basename or, if that
\* is none, a token of its argument string with the path prefix stripped.
FoundOn(child, r) ==
    /\ r \in Registry
    /\ \/ r = Basename(CommOf(call.pt, child))
       \/ /\ Basename(CommOf(call.pt, child)) \notin Registry
          /\ r \in {Basename(t) : t \in TokensOf(ArgsOf(call.pt, child))}

\* C10: Resolve returns cmd when cmd is registered; otherwise a registered
\* name found on a direct child of ownerPid; and absent when neither cmd nor
\* any direct child matches, whatever lies below the children or elsewhere.
C10_ResolveDirectChildren ==
    ret # Pending =>
        /\ call.cmd \in Registry => Result = call.cmd
        /\ call.cmd \notin Registry =>
              IF \E c \in DirectChildren, r \in Registry : FoundOn(c, r)
              THEN \E c \in DirectChildren : FoundOn(c, Result)
              ELSE Result = Nil

\* C10 witness: cmd is not registered and no direct child matches, while a
\* child of a child runs a registered agent; Resolve returned absent.
C10_Witness ==
    /\ ret # Pending
    /\ call.cmd \notin Registry
    /\ Result = Nil
    /\ \E c \in DirectChildren :
          \E g \in 1..Len(ChildrenOf(call.pt, c)) :
              CommOf(call.pt, ChildrenOf(call.pt, c)[g]) \in Registry

\* The step handles a paneKilledMsg carrying an error: a kill ends and no
\* loadPanes is returned.
KillFailedStep == killsInFlight' < killsInFlight /\ loadsInFlight' = loadsInFlight

\* C27: a failed switch or kill is shown to the user and does not stop the
\* polling: after it the model holds the action's error and the program
\* runs on with its panes cadence.
\* (Violated: the enter case drops what SwitchToPane returns and quits.)
C27_ActionErrorSurfaced ==
    /\ [](switchErr # Nil => (err = switchErr /\ ~quit))
    /\ [][KillFailedStep => (err' = ErrKill /\ ~quit' /\ PanesCycles' >= 1)]_vars

\* The first and the last pane row of the list shown.
FirstPaneRow == CHOOSE i \in PaneRowsOf(items) : \A j \in PaneRowsOf(items) : i <= j

LastPaneRow == CHOOSE i \in PaneRowsOf(items) : \A j \in PaneRowsOf(items) : i >= j

\* C28: G moves the cursor to the last pane row and the second g of gg to
\* the first pane row, wherever the cursor is.
\* (Violated: Update has no case for g or G; the cursor stays.)
C28_JumpFirstLast ==
    [][/\ (KeyStep("G") /\ PaneRowsOf(items) # {}) => cursor' = LastPaneRow
       /\ (KeyStep("g") /\ keyRun = "g" /\ PaneRowsOf(items) # {}) =>
             cursor' = FirstPaneRow]_vars

\* The step is the second d of a pair of d presses with no other key press
\* between them.
SecondD == keyRun = "d" /\ KeyStep("d")

\* The step starts one KillPane, for the pane under the cursor.
KillStarted ==
    /\ killsInFlight' = killsInFlight + 1
    /\ lastKill' = PaneAt(items, workspaces, cursor).Target

\* C29 as claimed: a kill is started exactly by the second d of such a
\* pair, for the pane under the cursor.
\* (Violated: with no pane under the cursor, as in the empty list, dd
\* starts nothing.)
C29_DdAlwaysKills ==
    /\ [][SecondD => KillStarted]_vars
    /\ [][killsInFlight' > killsInFlight => SecondD]_vars

\* C29 as amended: a kill is started exactly when a d press completes a
\* pair of d presses with no other key press between them and the cursor
\* is on a pane row; its target is the pane under the cursor at that
\* press; a single d, a d followed by another key, or a pair pressed with
\* no pane under the cursor starts none; every pair consumes both
\* presses, so a third d starts a new pair.
C29_DdKillsPaneUnderCursor ==
    /\ [](pendingD <=> keyRun = "d")
    /\ [][SecondD =>
            /\ keyRun' = ""
            /\ IF CursorOnPane(items, cursor)
               THEN KillStarted
               ELSE killsInFlight' = killsInFlight /\ lastKill' = NoCmd]_vars
    /\ [][killsInFlight' > killsInFlight =>
            (SecondD /\ CursorOnPane(items, cursor))]_vars
    /\ [][lastKill' # NoCmd => killsInFlight' > killsInFlight]_vars

\* C29 witness: the second d of a pair has just started the kill of the
\* pane of the second pane row, and both presses are consumed.
C29_Witness ==
    /\ lastKill = T2
    /\ killsInFlight = 1
    /\ keyRun = ""
    /\ ~pendingD
    /\ Len(items) = 3

-----------------------------------------------------------------------------
(* Claims about the collection cycle.                                      *)

\* The rows of the pane snapshot with all four fields, in discovery order.
DiscoveredRows == SelectSeq(host.tmux.rows, LAMBDA row : row.fields >= 4)

\* Resolve names a registered agent for the row, under the cycle's tree.
Resolvable(row) == Resolve(row.cmd, PidOf(row), lpPt) \in Registry

\* C9: a collection cycle that ends without error returns exactly the pane
\* rows for which Resolve names a registered agent, in discovery order; a
\* row matching no detector, directly or through its children, is absent.
C9_OnlyResolvedPanes ==
    (lpPc = "done" /\ lpErr = Nil) =>
        LET kept == SelectSeq(DiscoveredRows, Resolvable)
        IN  /\ Len(lpPanes) = Len(kept)
            /\ \A k \in 1..Len(kept) :
                  /\ lpPanes[k].Target = kept[k].target
                  /\ lpPanes[k].Path = kept[k].path
                  /\ lpPanes[k].PID = PidOf(kept[k])

\* C9 witness: a cycle ended having kept a pane resolved through its
\* children and dropped a pane no detector matches.
C9_Witness ==
    /\ lpPc = "done"
    /\ lpErr = Nil
    /\ Len(lpPanes) = 1
    /\ Len(DiscoveredRows) = 2
    /\ \E k \in 1..2 :
          /\ DiscoveredRows[k].cmd \notin Registry
          /\ Resolvable(DiscoveredRows[k])

\* The discovered rows whose foreground command is a registered name.
AgentRows == SelectSeq(DiscoveredRows, LAMBDA row : row.cmd \in Registry)

\* C13: when the pane enumeration fails the cycle returns an error and no
\* panes, whatever the process snapshot and the history read gave; loadPanes
\* hands the update loop a load result with that error.
C13_EnumerationErrorPropagates ==
    /\ (lpPc = "done" /\ host.tmux.err # Nil) => (lpErr # Nil /\ lpPanes = <<>>)
    /\ (ret # Pending /\ host.tmux.err # Nil) =>
          (Result.err # Nil /\ Result.panes = <<>>)

\* C13 witness: tmux failed while ps and the history read succeeded, and
\* the failed load result has been handed over.
C13_Witness ==
    /\ ret # Pending
    /\ host.tmux.err # Nil
    /\ ~host.ps.err
    /\ lpPt.Comm # <<>>
    /\ history # NilMap
    /\ Result.err = <<"tmux list-panes: ", "exit status 1">>

\* C14: when ps fails the process tree has its three mappings empty and
\* the cycle still ends without error: it returns, each with a status, the
\* panes whose foreground command is itself a registered name, and no pane
\* resolved through the process tree.
C14_PsFailureDegrades ==
    /\ (host.ps.err /\ "ps" \notin wg) => lpPt = EmptyTable
    /\ (lpPc = "done" /\ host.ps.err /\ host.tmux.err = Nil) =>
          /\ lpErr = Nil
          /\ Len(lpPanes) = Len(AgentRows)
          /\ \A k \in 1..Len(AgentRows) :
                /\ lpPanes[k].Target = AgentRows[k].target
                /\ lpPanes[k].Status \in Statuses

\* C14 witness: ps failed after printing a row that would have resolved
\* the first pane; the cycle ended with the second pane only, classified.
C14_Witness ==
    /\ lpPc = "done"
    /\ lpMode = "full"
    /\ host.ps.err
    /\ host.ps.rows # <<>>
    /\ lpErr = Nil
    /\ Len(DiscoveredRows) = 2
    /\ DiscoveredRows[1].cmd = <<"node">>
    /\ Len(lpPanes) = 1
    /\ lpPanes[1].Target = T2
    /\ lpPanes[1].Status = StatusNeedsAttention

\* The cycle's history read cannot find its file: os.UserHomeDir fails or
\* history.jsonl is missing.
HistoryMissing == ~host.home \/ ~hFile.exists

\* C18: when the home directory cannot be determined or history.jsonl is
\* missing, LastActiveByProject returns a nil mapping and leaves
\* historyCache as it was, and the collection cycle still ends without
\* error with every agent pane, each with the zero last-active time.
C18_MissingHistoryIsNoError ==
    /\ [][("history" \in wg /\ "history" \notin wg' /\ HistoryMissing) =>
            /\ history' = NilMap
            /\ UNCHANGED <<historyCache, heap>>]_vars
    /\ []((lpPc = "done" /\ HistoryMissing /\ host.tmux.err = Nil) =>
            LET kept == SelectSeq(DiscoveredRows, Resolvable)
            IN  /\ lpErr = Nil
                /\ Len(lpPanes) = Len(kept)
                /\ \A k \in 1..Len(kept) :
                      /\ lpPanes[k].Target = kept[k].target
                      /\ lpPanes[k].LastActive = 0)

\* C18 witness: history.jsonl is gone while an earlier mapping with a time
\* for the pane's path is still cached; the cycle ended with the pane, its
\* last-active time zero, and the cache is as it was.
C18_Witness ==
    /\ lpPc = "done"
    /\ host.home
    /\ ~hFile.exists
    /\ historyCache = [modTime |-> 1, data |-> 1]
    /\ history = NilMap
    /\ lpErr = Nil
    /\ Len(lpPanes) >= 1
    /\ lpPanes[1].Path \in DOMAIN heap[1]
    /\ lpPanes[1].LastActive = 0

\* The goroutine g of the cycle ends in this step.
Ends(g) == g \in wg /\ g \notin wg'

-----------------------------------------------------------------------------
(* Claims about the activity history.                                      *)

\* The valid records of the log under check for a path, by position.
ValidRecords(path) ==
    {k \in 1..Len(call.log) :
        /\ call.log[k].kind = "json"
        /\ call.log[k].project = path
        /\ call.log[k].project # <<>>
        /\ call.log[k].timestamp # 0}

\* C15: for every project path the mapping built from a log holds the
\* greatest timestamp among the valid records with that path, in whatever
\* order they come; unparseable records and records with an empty project
\* or a zero timestamp contribute nothing.
\* (Violated: a line longer than the scanner's buffer ends the scan, and the
\* valid records after it are left out.)
C15_MaxOfValidRecords ==
    ret # Pending =>
        \A path \in UIPaths \cup {<<>>} :
            /\ path \in DOMAIN Result <=> ValidRecords(path) # {}
            /\ path \in DOMAIN Result =>
                  /\ \E k \in ValidRecords(path) : Result[path] = call.log[k].timestamp
                  /\ \A k \in ValidRecords(path) : Result[path] >= call.log[k].timestamp

\* The callers that decided to read the file again, or are reading it.
Rereading == {p \in Callers : hp[p].pc \in {"open", "scan", "store"}}

\* HCheck of p served the call from the cache.
ServedFromCache(p) ==
    /\ hp[p].pc = "check"
    /\ hp'[p].pc = "done"

\* C16 as claimed: a call made while the source is unchanged since the
\* last completed read reads nothing again and returns the mapping of that
\* read.
\* (Violated: the modification time is taken before the lock, so a read
\* that overlapped a change records the older time, and the next call
\* reads the unchanged file again.)
C16_NoRereadWhenUnchanged ==
    \A p \in hGhost.clean :
        /\ p \notin Rereading
        /\ (hp[p].pc = "done" /\ hp[p].ret # NilMap) => hp[p].ret = historyCache.data

\* The part of C16 that does hold: a call reads the file again only when the
\* modification time its Stat saw differs from the one recorded with the cache, or
\* nothing is cached: a call whose Stat, like the Stat of the last
\* completed read, came after the last change of the source reads nothing
\* again, and a call served from the cache returns the cached mapping
\* itself, which stays as it is.
C16_RereadOnlyOnNewModTime ==
    /\ [](hGhost.fresh => \A p \in Rereading : p \in hGhost.dirty)
    /\ [](\A p \in Rereading : ~CacheHit(historyCache, hp[p].info))
    /\ [][\A p \in Callers : ServedFromCache(p) =>
            /\ hp'[p].ret = historyCache.data
            /\ hp'[p].ret # NilMap
            /\ UNCHANGED <<historyCache, heap>>]_vars

\* C16 witness: both callers hold the same mapping, one from its read and
\* one from the cache, and the source has not changed since.
C16_Witness ==
    /\ hGhost.fresh
    /\ hGhost.dirty = {}
    /\ \A p \in Callers : hp[p].pc = "done" /\ hp[p].ret = historyCache.data
    /\ historyCache.data # NilMap
    /\ Len(heap) = 1

\* The mappings a caller may hold: those returned and the cached one.
Published == hGhost.handedOut \cup ({historyCache.data} \ {NilMap})

\* C17: historyCache changes only in one step of the caller holding the
\* lock, both fields together; the lock is held only inside the guarded
\* part of a call, so every return has released it; a mapping that was
\* returned or cached is not the one a caller is still filling and never
\* changes afterwards; and a caller waiting for the lock gets it.
C17_CacheGuardedByLock ==
    /\ [][historyCache' # historyCache =>
            /\ hLock # 0
            /\ hp[hLock].pc = "store"
            /\ historyCache' = [modTime |-> hp[hLock].info, data |-> hp[hLock].result]
            /\ hLock' = 0]_vars
    /\ [](\A p \in Callers :
            /\ hLock = p => hp[p].pc \in {"check", "open", "scan", "store"}
            /\ hp[p].pc \in {"check", "open", "scan", "store"} => hLock = p)
    /\ [](\A p \in Callers : hp[p].pc \in {"scan", "store"} => hp[p].result \notin Published)
    /\ [][\A r \in Published : heap'[r] = heap[r]]_vars
    /\ \A p \in Callers : (hp[p].pc = "lock") ~> (hp[p].pc = "check")

\* C17 witness: a caller waits for the lock while the other, holding it,
\* has filled part of a new mapping and an older one is cached.
C17_Witness ==
    /\ hp[1].pc = "lock"
    /\ hp[2].pc = "scan"
    /\ hp[2].pos = 2
    /\ Len(hp[2].log) = 2
    /\ hLock = 2
    /\ historyCache.data # NilMap
    /\ historyCache.data # hp[2].result

-----------------------------------------------------------------------------
(* Claims about moving between pane rows.                                  *)

\* The 0-based indices of the pane rows of the list under check.
PaneIndices == {i \in 0..(Len(call.items) - 1) : call.items[i + 1].Kind = KindPane}

PaneIndicesAfter == {i \in PaneIndices : i > call.from}

PaneIndicesBefore == {i \in PaneIndices : i < call.from}

\* C19: a call of NextPane that returns gives the smallest pane-row index
\* greater than from, one of PrevPane the largest pane-row index less than
\* from, and each gives from itself when there is no such row: nothing
\* wraps around, so NextPane at the last pane row and PrevPane at the first
\* return the index they were given. Every call with from on a row of the
\* list, one before its first row or one past its last, returns.
C19_NextPrevNoWrap ==
    ret # Pending =>
        /\ call.from \in (0 - 1)..Len(call.items) => ~Result.panic
        /\ (~Result.panic /\ call.fn = "NextPane") =>
              IF PaneIndicesAfter = {} THEN Result.index = call.from
              ELSE /\ Result.index \in PaneIndicesAfter
                   /\ \A i \in PaneIndicesAfter : Result.index <= i
        /\ (~Result.panic /\ call.fn = "PrevPane") =>
              IF PaneIndicesBefore = {} THEN Result.index = call.from
              ELSE /\ Result.index \in PaneIndicesBefore
                   /\ \A i \in PaneIndicesBefore : Result.index >= i

\* C19 witness: NextPane was called on the last pane row of a list with an
\* earlier pane row and a workspace row after it, and returned that index.
C19_Witness ==
    /\ ret # Pending
    /\ call.fn = "NextPane"
    /\ Len(call.items) = 4
    /\ PaneIndices = {1, 2}
    /\ call.from = 2
    /\ Result = Index(2)

\* C20: NextPane and PrevPane return an index for every list and every
\* from, also outside [0, len(items)), and index nothing out of bounds.
\* (Violated: NextPane starts at from + 1 and only tests i < len(items), so
\* with from < -1 it indexes items at a negative i; PrevPane starts at
\* from - 1 and only tests i >= 0, so with from > len(items) it indexes
\* items at i >= len(items).)
C20_NeverFails ==
    (ret # Pending /\ call.fn \in {"NextPane", "PrevPane"}) => ~Result.panic

\* from clamped into [0, len(items) - 1], for a list with rows.
Clamped ==
    IF call.from >= Len(call.items) THEN Len(call.items) - 1
    ELSE IF call.from < 0 THEN 0
    ELSE call.from

\* C21: NearestPane(items, i) = i for every list and every index i inside
\* the list that addresses a pane row.
C21_NearestIsIdentityOnPane ==
    (ret # Pending /\ call.fn = "NearestPane" /\ call.from \in PaneIndices) =>
        Result = Index(call.from)

\* C21 witness: NearestPane was called on a pane row that has pane rows on
\* both sides, and returned.
C21_Witness ==
    /\ ret # Pending
    /\ call.fn = "NearestPane"
    /\ PaneIndices = {0, 1, 2}
    /\ call.from = 1

\* C22: on a list with rows NearestPane clamps from into [0, len - 1]; when
\* the clamped index is a header it returns the closest pane row before it,
\* and the closest pane row after it only when none is before it; on the
\* empty list it returns 0.
C22_NearestPrefersPrevious ==
    (ret # Pending /\ call.fn = "NearestPane") =>
        IF Len(call.items) = 0 THEN Result = Index(0)
        ELSE LET before == {i \in PaneIndices : i < Clamped}
                 after  == {i \in PaneIndices : i > Clamped}
             IN  /\ Clamped \in PaneIndices => Result = Index(Clamped)
                 /\ (Clamped \notin PaneIndices /\ before # {}) =>
                       /\ Result.index \in before
                       /\ \A i \in before : Result.index >= i
                 /\ (Clamped \notin PaneIndices /\ before = {} /\ after # {}) =>
                       /\ Result.index \in after
                       /\ \A i \in after : Result.index <= i

\* C22 witness: from lies past the end of a list whose last row is a
\* header with pane rows before it; the result is the last of these.
C22_Witness ==
    /\ ret # Pending
    /\ call.fn = "NearestPane"
    /\ Len(call.items) = 4
    /\ PaneIndices = {0, 2}
    /\ call.from = 6
    /\ Result = Index(2)

\* C34: NearestPane is idempotent, NearestPane(items, NearestPane(items,
\* from)) = NearestPane(items, from) for every list and every from, inside
\* the list or not; and on a list with a pane row its result is the index
\* of a pane row of the list.
C34_NearestIdempotent ==
    (ret # Pending /\ call.fn = "NearestPane") =>
        /\ NearestPane(call.items, Result.index) = Result.index
        /\ PaneIndices # {} => Result.index \in PaneIndices

\* C34 witness: NearestPane was called before the first row of a list that
\* starts with two headers, and returned the pane row after them.
C34_Witness ==
    /\ ret # Pending
    /\ call.fn = "NearestPane"
    /\ call.from < 0
    /\ PaneIndices = {2, 3}
    /\ Result = Index(2)

\* The pane rows whose pane has the status NeedsAttention.
AttentionIndices ==
    {i \in PaneIndices :
        PaneAt(call.items, call.wss, i).Status = StatusNeedsAttention}

\* C23: FirstPane returns the index of the first pane row, and
\* FirstAttentionPane the index of the first pane row whose pane needs
\* attention, or of the first pane row when no pane does; both return 0
\* on the empty list.
C23_FirstPaneAndAttention ==
    /\ (ret # Pending /\ call.fn = "FirstPane") =>
          IF PaneIndices = {} THEN Result = Index(0)
          ELSE /\ Result.index \in PaneIndices
               /\ \A i \in PaneIndices : Result.index <= i
    /\ (ret # Pending /\ call.fn = "FirstAttentionPane") =>
          IF Len(call.items) = 0 THEN Result = Index(0)
          ELSE IF AttentionIndices # {}
          THEN /\ Result.index \in AttentionIndices
               /\ \A i \in AttentionIndices : Result.index <= i
          ELSE /\ Result.index \in PaneIndices
               /\ \A i \in PaneIndices : Result.index <= i

\* C23 witness: the pane needing attention is the second pane of the
\* second workspace, and FirstAttentionPane returned its row.
C23_Witness ==
    /\ ret # Pending
    /\ call.fn = "FirstAttentionPane"
    /\ Len(call.wss) = 2
    /\ AttentionIndices = {4}
    /\ Result = Index(4)

-----------------------------------------------------------------------------
(* Claims about the tree of workspaces.                                    *)

\* Where a pane stands in the pane list under check (targets are distinct).
PosOf(p) == CHOOSE i \in DOMAIN call.panes : call.panes[i] = p

\* C24: GroupByWorkspace returns one workspace for each distinct working
\* directory of the panes, the paths strictly increasing; each workspace
\* holds exactly the panes of its directory, in the order they have in the
\* input; and the result is the same whatever order the map of groups is
\* ranged over, so the same on every call.
C24_GroupsSortedAndStable ==
    (ret # Pending /\ call.fn = "GroupByWorkspace") =>
        /\ Len(Result) = Cardinality({call.panes[i].Path : i \in DOMAIN call.panes})
        /\ \A i \in DOMAIN call.panes :
              \E k \in DOMAIN Result :
                  /\ Result[k].Path = call.panes[i].Path
                  /\ \E j \in DOMAIN Result[k].Panes : Result[k].Panes[j] = call.panes[i]
        /\ \A k \in 1..(Len(Result) - 1) : StrLess(Result[k].Path, Result[k + 1].Path)
        /\ \A k \in DOMAIN Result :
              /\ Result[k].Panes # <<>>
              /\ \A j \in DOMAIN Result[k].Panes :
                    /\ Result[k].Panes[j].Path = Result[k].Path
                    /\ \E i \in DOMAIN call.panes : call.panes[i] = Result[k].Panes[j]
              /\ \A i, j \in DOMAIN Result[k].Panes :
                    i < j => PosOf(Result[k].Panes[i]) < PosOf(Result[k].Panes[j])
        /\ Result = GroupByWorkspace(call.panes)

\* C24 witness: three panes, the first and third in "/b" and the second in
\* "/ab"; the map was ranged over with "/b" first.
C24_Witness ==
    /\ ret # Pending
    /\ call.fn = "GroupByWorkspace"
    /\ Len(call.panes) = 3
    /\ call.order = <<PathB, <<47, 97, 98>>>>
    /\ call.panes[1].Path = PathB
    /\ call.panes[3].Path = PathB
    /\ Len(Result) = 2
    /\ Result[2].Panes = <<call.panes[1], call.panes[3]>>

\* The panes of the first n workspaces of the result, counted.
RECURSIVE PanesIn(_)
PanesIn(n) == IF n = 0 THEN 0 ELSE PanesIn(n - 1) + Len(Result[n].Panes)

\* Where the pane stands in the result: workspace and place in it.
PlacesOf(p) ==
    {<<k, j>> \in (DOMAIN Result) \X (DOMAIN call.panes) :
        j \in DOMAIN Result[k].Panes /\ Result[k].Panes[j] = p}

\* C35: GroupByWorkspace partitions its input: every pane given appears in
\* exactly one workspace, once, and that workspace's path is the pane's
\* working directory; no workspace is empty; the workspaces hold as many
\* panes as were given.
C35_GroupsPartitionInput ==
    (ret # Pending /\ call.fn = "GroupByWorkspace") =>
        /\ \A i \in DOMAIN call.panes :
              /\ Cardinality(PlacesOf(call.panes[i])) = 1
              /\ \A pl \in PlacesOf(call.panes[i]) :
                    Result[pl[1]].Path = call.panes[i].Path
        /\ \A k \in DOMAIN Result : Len(Result[k].Panes) >= 1
        /\ PanesIn(Len(Result)) = Len(call.panes)

\* C35 witness: of three panes the first two are in "/a" and the third in
\* "/b": two workspaces, of two panes and of one.
C35_Witness ==
    /\ ret # Pending
    /\ call.fn = "GroupByWorkspace"
    /\ Len(call.panes) = 3
    /\ call.panes[1].Path = PathA
    /\ call.panes[2].Path = PathA
    /\ call.panes[3].Path = PathB
    /\ Len(Result[1].Panes) = 2
    /\ Len(Result[2].Panes) = 1

\* The row at which the workspace with 0-based index wi starts.
RECURSIVE RowOfWorkspace(_)
RowOfWorkspace(wi) ==
    IF wi = 0 THEN 0
    ELSE RowOfWorkspace(wi - 1) + 1 + Len(call.wss[wi].Panes)

\* C25: FlattenTree emits for each workspace, in order, one header row
\* and right after it one pane row for each of its panes, in their order;
\* the list has as many rows as there are workspaces and panes together,
\* and the indices of each row address the workspace or pane it stands for.
C25_FlattenHeaderThenPanes ==
    (ret # Pending /\ call.fn = "FlattenTree") =>
        /\ Len(Result) = Len(call.wss) + Len(call.panes)
        /\ Len(Result) = RowOfWorkspace(Len(call.wss))
        /\ \A wi \in 0..(Len(call.wss) - 1) :
              /\ Result[RowOfWorkspace(wi) + 1].Kind = KindWorkspace
              /\ Result[RowOfWorkspace(wi) + 1].WorkspaceIndex = wi
              /\ \A pi \in 0..(Len(call.wss[wi + 1].Panes) - 1) :
                    Result[RowOfWorkspace(wi) + 1 + pi + 1] =
                        [Kind |-> KindPane, WorkspaceIndex |-> wi, PaneIndex |-> pi]

\* C25 witness: two workspaces, of two panes and of one; five rows.
C25_Witness ==
    /\ ret # Pending
    /\ call.fn = "FlattenTree"
    /\ Len(call.wss) = 2
    /\ Len(call.wss[1].Panes) = 2
    /\ Len(Result) = 5
    /\ Result[4].Kind = KindWorkspace

-----------------------------------------------------------------------------
(* Claims about killing and switching.                                     *)

\* The close commands among the commands KillPane ran.
CloseCommands ==
    {k \in DOMAIN Result.cmds : Result.cmds[k][1] \in {"kill-window", "kill-pane"}}

\* The target without its pane index: session:window.
WindowOf(target) == SliceTo(target, Len(target) - 2)

\* C26: KillPane closes the window when the lookup shows one pane in the
\* target's window and closes the target pane when it shows several; after
\* a lookup that succeeded it runs exactly one close command and returns
\* what that command returned; after a lookup that failed it returns an
\* error and runs no close command.
C26_KillWindowWhenSolePane ==
    ret # Pending =>
        /\ Result.cmds[1] = <<"list-panes", WindowOf(call.target)>>
        /\ call.tmux.listErr # Nil =>
              /\ Result.err # Nil
              /\ CloseCommands = {}
        /\ call.tmux.listErr = Nil =>
              /\ CloseCommands = {2}
              /\ Len(Result.cmds) = 2
              /\ Result.err = call.tmux.closeErr
              /\ call.tmux.count = 1 =>
                    Result.cmds[2] = <<"kill-window", WindowOf(call.target)>>
              /\ call.tmux.count > 1 =>
                    Result.cmds[2] = <<"kill-pane", call.target>>

\* C26 witness: the pane "main:0.1" was alone in its window when it was
\* killed, and the window was closed.
C26_Witness ==
    /\ ret # Pending
    /\ call.target = T2
    /\ call.tmux.count = 1
    /\ call.tmux.listErr = Nil
    /\ Result.cmds = <<<<"list-panes", <<"main", ":", "0">>>>,
                       <<"kill-window", <<"main", ":", "0">>>>>>

\* The atom occurs in the string.
Has(s, a) == \E i \in 1..Len(s) : s[i] = a

\* What follows the session and its ':' in the target.
AfterSession(t, session) == SubSeq(t, Len(session) + 2, Len(t))

\* C31: parseTarget splits a target at its last ':' and the remainder at its
\* last '.': "main:2.1" gives session "main", window "2", pane "1"; a target
\* with no ':' is the session, with empty window and pane; a remainder with
\* no '.' is the window, with an empty pane.
C31_ParseTargetLastSeparators ==
    ret # Pending =>
        LET t    == call.target
            r    == Result
            rest == AfterSession(t, r.session)
        IN  /\ ~Has(t, ":") => r = [session |-> t, window |-> <<>>, pane |-> <<>>]
            /\ Has(t, ":") =>
                  /\ t = r.session \o <<":">> \o rest
                  /\ ~Has(rest, ":")
                  /\ ~Has(rest, ".") => (r.window = rest /\ r.pane = <<>>)
                  /\ Has(rest, ".") =>
                        /\ rest = r.window \o <<".">> \o r.pane
                        /\ ~Has(r.pane, ".")
            /\ t = <<"main", ":", "2", ".", "1">> =>
                  r = [session |-> <<"main">>, window |-> <<"2">>, pane |-> <<"1">>]

\* C31 witness: a target with two ':' and two '.' was split at the last of
\* each.
C31_Witness ==
    /\ ret # Pending
    /\ call.target = <<":", ".", ":", ".", "1">>
    /\ Result = [session |-> <<":", ".">>, window |-> <<>>, pane |-> <<"1">>]

=============================================================================
